---- MODULE Spec2Model ----
(***************************************************************************)
(* X-Engage: the approval state machine of the Telegram control channel    *)
(* (modules/telegram_bot.py), the SQLite store (modules/database.py), the  *)
(* background auto-post dispatcher, the on-demand search thread            *)
(* (modules/on_demand.py) and the insert loop of run_once (main.py).       *)
(*                                                                         *)
(* The bot handles one update at a time (python-telegram-bot processes     *)
(* updates sequentially), so a handler is one action.  Threads started by  *)
(* a handler, and the run_once process, interleave with the handlers at    *)
(* their network calls and between their auto-committing store writes.     *)
(***************************************************************************)
EXTENDS Integers, Sequences, FiniteSets, TLC

VARIABLES
    posts,          \* table posts: id -> row (url, author_handle, status)
    comments,       \* table comments: sequence of rows, id = index (AUTOINCREMENT)
    approvals,      \* table approvals: sequence of rows, id = index (AUTOINCREMENT)
    account_checks, \* table account_checks: handle -> last_checked_at
    accounts_json,  \* config/accounts.json: list of watched handles
    user_data,      \* context.user_data of the chat
    auto_threads,   \* threads running _run_auto_post, keyed by approval_id
    search_threads, \* threads running on_demand.run_search
    run,            \* the run_once process: position in its STEP 4 loop
    now,            \* CURRENT_TIMESTAMP: a clock that has moved on between
                    \* any two writes that read it
    update_id,      \* number of control-channel updates handled so far
    reply,          \* what the handler of the last update answered
    history,        \* per post id, every status the row has ever held
    posters,        \* the AutoPoster objects made by auto_post_reply, one per call
    gen,            \* a generate_comments call: its tone, its results so far
    cards,          \* the approval cards send_post has put in the chat, by post id
    probe           \* a call of score_post or filter_and_rank_posts: its
                    \* arguments and what it returned

vars == <<posts, comments, approvals, account_checks, accounts_json, user_data,
          auto_threads, search_threads, run, now, update_id, reply, history,
          posters, gen, cards, probe>>

\* The bot, its threads and the run; the browser sessions and the generator
\* are looked at on their own (PosterSpec, GenSpec).
bot_vars == <<posts, comments, approvals, account_checks, accounts_json,
              user_data, auto_threads, search_threads, run, now, update_id,
              reply, history, cards>>

store == <<posts, comments, approvals, account_checks, accounts_json>>

----------------------------------------------------------------------------
(* Bounds of the model *)

MaxUpdates == 3
MaxApprovals == 2
MaxPosters == 2
MaxClock == 3

\* filtering.top_n_posts of config.yaml, scaled to the three tweets there are.
top_n_posts == 2

(* Inputs *)

NULL == "NULL"

\* The tweets that get tokens in every specification; p3, p4 and p5 are
\* scraped, and get a watch token where the polls are looked at.
PostIds == {"p1", "p2"}

\* What _parse_tweet_card makes of a tweet (inputs): author_followers is
\* always 0 there; created_at is <<>> (None) for a card whose time tag
\* could not be read, and otherwise <<m>>, m the minutes from it to the time
\* of the call that reads it; priority_boost, source and score are the keys
\* the discovery and filter code add later, at what post.get() gives without
\* them.
Tweet(id, views) ==
    [id |-> id,
     url |-> CASE id = "p1" -> "https://x.com/alice/status/p1"
               [] id = "p2" -> "https://x.com/alice/status/p2"
               [] id = "p3" -> "https://x.com/bob/status/p3"
               [] id = "p4" -> "https://x.com/alice/status/p4"
               [] OTHER -> "https://x.com/bob/status/p5",
     author_handle |-> IF id \in {"p3", "p5"} THEN "bob" ELSE "alice",
     author_followers |-> 0,
     author_verified |-> FALSE,
     text |-> "llm evals",
     views |-> views,
     likes |-> 0,
     replies |-> 0,
     created_at |-> <<>>,
     priority_boost |-> 0,
     source |-> NULL,
     score |-> 0]

\* The tweet an on-demand search finds for an id.
RawPost(id) == Tweet(id, IF id = "p1" THEN 500 ELSE 12000)

Handles == {"alice", "bob"}

\* What one scrape_keyword or scrape_profile call does: it returns posts,
\* no two with the same id (_scrape_url keeps the first card of an id), or
\* raises.
Scrape(ps) == [raised |-> FALSE, posts |-> ps]

Raised == [raised |-> TRUE, posts |-> <<>>]

\* The two keyword searches of a run: both fail; one fails; both find p1,
\* the first with a view count below min_views; the first finds more than
\* top_n_posts tweets, one of which the second finds too.  And the poll of
\* each account, with the hours since its last check.
RunScrapes ==
    {<<Raised, Raised>>,
     <<Scrape(<<Tweet("p1", 12000)>>), Raised>>,
     <<Scrape(<<Tweet("p1", 500)>>),
       Scrape(<<Tweet("p2", 11000), Tweet("p1", 12000)>>)>>,
     <<Scrape(<<Tweet("p3", 12000), Tweet("p2", 11000), Tweet("p1", 12000)>>),
       Scrape(<<Tweet("p1", 12000)>>)>>}

RunPolls ==
    {[h \in Handles |->
        IF h = "alice" THEN [elapsed |-> e, raised |-> o.raised, posts |-> o.posts]
        ELSE [elapsed |-> 2, raised |-> TRUE, posts |-> <<>>]] :
       e \in {2, 7}, o \in {Raised, Scrape(<<Tweet("p1", 12000)>>)}}

\* The same for the runs that go on beside the bot: the first keyword finds
\* two posts, the polls fail.
BotScrapes ==
    {<<Scrape(<<Tweet("p2", 11000), Tweet("p1", 12000)>>), Scrape(<<>>)>>}

BotPolls == [Handles -> {[elapsed |-> 2, raised |-> TRUE, posts |-> <<>>]}]

TONES == <<"challenge", "expand", "nuanced", "question">>

ToneSet == {TONES[i] : i \in DOMAIN TONES}

\* Tones of the buttons that get tapped.
TapTones == {"question"}

\* Control-channel plain-text messages (update.message.text) and what
\* str.strip() returns for each.
MsgTexts == {" ", "hi "}

strip(text) == CASE text = " " -> ""
                 [] text = "hi " -> "hi"
                 [] OTHER -> text

\* Second field of an scount token and what int() makes of it (0: ValueError).
CountArgs == {"2", "x"}

IsInt(s) == s \in {"1", "2", "3", "4", "5"}

int(s) == CASE s = "1" -> 1 [] s = "2" -> 2 [] s = "3" -> 3
            [] s = "4" -> 4 [] s = "5" -> 5 [] OTHER -> 0

\* query.data split at the first "|"; the action split at its first "_".
\* A one-field value is a callback datum without "|".
Queries ==
    {<<<<"noop">>>>}
    \cup {<<<<"scount">>, c>> : c \in CountArgs}
    \cup {<<<<k, t>>, p>> : k \in {"manual", "auto"}, t \in TapTones, p \in PostIds}
    \cup {<<<<k>>, p>> : k \in {"edit", "skip", "watch"}, p \in PostIds}

\* What the scrape of an on-demand search returns: a list of tweet ids.
RawBatches == {<<>>, <<"p1">>, <<"p2", "p1">>}

\* Texts of generate_comments: one per tone that validate_comment passes,
\* and one of two characters.
GenText(tone) == CASE tone = "challenge" -> "txt-challenge"
                   [] tone = "expand" -> "txt-expand"
                   [] tone = "nuanced" -> "txt-nuanced"
                   [] OTHER -> "txt-question"

----------------------------------------------------------------------------
(* modules/database.py *)

\* What a lookup returns for no row (None): a post with no id, a comment
\* with id 0 (AUTOINCREMENT ids start at 1).
NoPost == [id |-> NULL, url |-> NULL, author_handle |-> "", score |-> 0,
           status |-> NULL]

NoComment == [id |-> 0, post_id |-> NULL, comment_type |-> NULL, text |-> ""]

\* INSERT OR IGNORE INTO posts ... VALUES (..., 'pending'): ignored when the
\* id (PRIMARY KEY) or the url (UNIQUE) is already there.
\* (insert_post_replace: INSERT OR REPLACE; insert_post_upsert: ON CONFLICT
\* DO UPDATE of the scraped columns.)
insert_post_replace(tbl, post) ==
    (post.id :> [id |-> post.id, url |-> post.url,
                 author_handle |-> post.author_handle, score |-> post.score,
                 status |-> "pending"])
    @@ tbl

insert_post_upsert(tbl, post) ==
    (post.id :> [id |-> post.id, url |-> post.url,
                 author_handle |-> post.author_handle, score |-> post.score,
                 status |-> IF post.id \in DOMAIN tbl THEN tbl[post.id].status
                            ELSE "pending"])
    @@ tbl

insert_post(tbl, post) ==
    IF \/ post.id \in DOMAIN tbl
       \/ \E p \in DOMAIN tbl : tbl[p].url = post.url
    THEN tbl
    ELSE tbl @@ (post.id :> [id |-> post.id, url |-> post.url,
                             author_handle |-> post.author_handle,
                             score |-> post.score, status |-> "pending"])

update_post_status_noop(tbl, post_id, status) == tbl

update_post_status(tbl, post_id, status) ==
    [p \in DOMAIN tbl |->
        IF p = post_id THEN [tbl[p] EXCEPT !.status = status] ELSE tbl[p]]

get_post(tbl, post_id) ==
    IF post_id \in DOMAIN tbl THEN tbl[post_id] ELSE NoPost

\* SELECT id FROM posts.  (get_already_seen_ids_none: no id is reported.)
get_already_seen_ids_none(tbl) == {}

get_already_seen_ids(tbl) == DOMAIN tbl

\* Returns the new table; the caller's lastrowid is its length.
insert_comment(tbl, post_id, comment_type, text, issues) ==
    Append(tbl, [id |-> Len(tbl) + 1, post_id |-> post_id,
                 comment_type |-> comment_type, text |-> text,
                 issues |-> issues])

get_comments_for_post_all(tbl, post_id) == tbl

get_comments_for_post(tbl, post_id) ==
    SelectSeq(tbl, LAMBDA r : r.post_id = post_id)

insert_approval_noop(tbl, post_id, comment_id, option, custom_text) == tbl

insert_approval(tbl, post_id, comment_id, option, custom_text) ==
    Append(tbl, [id |-> Len(tbl) + 1, post_id |-> post_id,
                 comment_id |-> comment_id, option_chosen |-> option,
                 custom_text |-> custom_text, posted_at |-> 0])

\* UPDATE approvals SET posted_at = CURRENT_TIMESTAMP WHERE id = ?
mark_posted_noop(tbl, approval_id, ts) == tbl

mark_posted_by_post(tbl, approval_id, ts) ==
    [i \in DOMAIN tbl |->
        IF \E j \in DOMAIN tbl : j = approval_id /\ tbl[j].post_id = tbl[i].post_id
        THEN [tbl[i] EXCEPT !.posted_at = ts] ELSE tbl[i]]

mark_posted(tbl, approval_id, ts) ==
    [i \in DOMAIN tbl |->
        IF i = approval_id THEN [tbl[i] EXCEPT !.posted_at = ts] ELSE tbl[i]]

\* account_checks: handle -> last_checked_at, 0 for NULL.
\* (add_to_watchlist_reset: INSERT OR REPLACE.)
add_to_watchlist_reset(tbl, handle) ==
    [h \in DOMAIN tbl \cup {handle} |-> IF h = handle THEN 0 ELSE tbl[h]]

add_to_watchlist(tbl, handle) ==
    IF handle \in DOMAIN tbl THEN tbl ELSE tbl @@ (handle :> 0)

----------------------------------------------------------------------------
(* modules/telegram_bot.py *)

lower(h) == CASE h = "Alice" -> "alice" [] h = "Bob" -> "bob" [] OTHER -> h

\* Returns the new list; json_added is whether it grew.
_add_to_accounts_json(accounts, handle) ==
    IF \E i \in DOMAIN accounts : lower(accounts[i]) = lower(handle)
    THEN accounts
    ELSE Append(accounts, handle)

\* comment_map = {r["comment_type"]: r for r in comments_rows}; .get(tone):
\* the last row of that type, or None.
comment_map_get(comments_rows, tone) ==
    LET idx == {i \in DOMAIN comments_rows : comments_rows[i].comment_type = tone}
    IN IF idx = {} THEN NoComment
       ELSE comments_rows[CHOOSE i \in idx : \A j \in idx : j <= i]

\* "if not post: ... return" in button_callback and handle_custom_comment.
post_found_always(post) == TRUE

post_found(post) == post.id # NULL

\* "if not row: ... return" in the manual and auto branches.
\* (row_found_always: the check is not made.)
row_found_always(row) == TRUE

row_found(row) == row.id # 0

\* action.startswith("manual_"), on an action split at its first "_".
startswith(action, prefix) == Len(action) = 2 /\ action[1] = prefix

\* The status history a table adds to what was recorded before.
Recorded(h, tbl) ==
    [p \in PostIds |-> h[p] \cup (IF p \in DOMAIN tbl THEN {tbl[p].status} ELSE {})]

\* threading.Thread(target=_run_auto_post, args=(url, text, post_id,
\* approval_id, tone)).start(): the thread exists and has not run yet.
\* (start_inline: the target run to its end inside the handler, on a reply
\* that fails.)
start_inline(post, row, approval_id, tone) ==
    [tweet_url |-> post.url, comment |-> row.text, post_id |-> post.id,
     approval_id |-> approval_id, tone |-> tone, pc |-> "done",
     msg |-> [kind |-> "failed", tone |-> NULL, tweet_url |-> post.url,
              comment |-> row.text]]

\* The local msg of _run_auto_post before either branch has built it.
NoMsg == [kind |-> NULL, tone |-> NULL, tweet_url |-> NULL, comment |-> NULL]

start(post, row, approval_id, tone) ==
    [tweet_url |-> post.url, comment |-> row.text, post_id |-> post.id,
     approval_id |-> approval_id, tone |-> tone, pc |-> "auto_post_reply",
     msg |-> NoMsg]

\* What reaches the chat from a handler's "await query.edit_message_text"
\* (or answer, or send_message): the text, or nothing when the call raises,
\* which ends the handler there.
answered(edited, text) == IF edited THEN text ELSE "none"

\* context.user_data.pop("pending_search_topic", None), what it leaves.
\* (pop_pending_search_topic_get: the topic is read and left in place.)
pop_pending_search_topic_get(ud) == ud

pop_pending_search_topic(ud) == [ud EXCEPT !.pending_search_topic = NULL]

\* One callback query.  The store writes of a branch come before its
\* edit_message_text; the threads of the auto and scount branches are started
\* after it, so not at all when it raises.
button_callback(data, edited) ==
    /\ UNCHANGED <<posters, gen, cards, probe>>
    /\ update_id < MaxUpdates
    /\ update_id' = update_id + 1
    /\ UNCHANGED <<comments, run, now>>
    /\ IF Len(data) < 2
       THEN /\ reply' = "none"
            /\ UNCHANGED <<store, user_data, auto_threads, search_threads, history>>
       ELSE
       LET action == data[1]
           post_id == data[2]
           post == get_post(posts, post_id)
           comments_rows == get_comments_for_post(comments, post_id)
           tone == IF Len(action) = 2 THEN action[2] ELSE NULL
           row == comment_map_get(comments_rows, tone)
       IN
       IF action = <<"scount">>
       THEN /\ UNCHANGED <<store, auto_threads, history>>
            /\ IF ~IsInt(post_id)
               THEN /\ reply' = "none"
                    /\ UNCHANGED <<user_data, search_threads>>
               ELSE LET topic == user_data.pending_search_topic
                    IN /\ user_data' = pop_pending_search_topic(user_data)
                       /\ IF topic = NULL
                          THEN /\ reply' = answered(edited, "Search expired")
                               /\ UNCHANGED search_threads
                          ELSE /\ reply' = answered(edited, "Searching")
                               /\ search_threads' =
                                    IF edited
                                    THEN Append(search_threads,
                                                [topic |-> topic,
                                                 count |-> int(post_id),
                                                 pc |-> "scrape",
                                                 top_posts |-> <<>>, i |-> 0])
                                    ELSE search_threads
       ELSE IF ~post_found(post)
       THEN /\ reply' = answered(edited, "Post not found")
            /\ UNCHANGED <<store, user_data, auto_threads, search_threads, history>>
       ELSE IF startswith(action, "manual")
       THEN IF ~row_found(row)
            THEN /\ reply' = answered(edited, "No comment found")
                 /\ UNCHANGED <<store, user_data, auto_threads, search_threads,
                                history>>
            ELSE /\ approvals' = insert_approval(approvals, post_id, row.id,
                                                 <<"manual", tone>>, NULL)
                 /\ posts' = update_post_status(posts, post_id, "approved")
                 /\ history' = Recorded(history, posts')
                 /\ reply' = answered(edited, "Tap to copy")
                 /\ UNCHANGED <<account_checks, accounts_json, user_data,
                                auto_threads, search_threads>>
       ELSE IF startswith(action, "auto")
       THEN IF ~row_found(row)
            THEN /\ reply' = answered(edited, "No comment found")
                 /\ UNCHANGED <<store, user_data, auto_threads, search_threads,
                                history>>
            ELSE /\ approvals' = insert_approval(approvals, post_id, row.id,
                                                 <<"auto", tone>>, NULL)
                 /\ posts' = update_post_status(posts, post_id, "approved")
                 /\ history' = Recorded(history, posts')
                 /\ reply' = answered(edited, "Auto-posting")
                 /\ LET approval_id == Len(approvals')
                    IN auto_threads' =
                         IF edited
                         THEN (approval_id :> start(post, row, approval_id, tone))
                              @@ auto_threads
                         ELSE auto_threads
                 /\ UNCHANGED <<account_checks, accounts_json, user_data,
                                search_threads>>
       ELSE IF action = <<"edit">>
       THEN /\ user_data' = [user_data EXCEPT !.editing_post_id = post_id]
            /\ reply' = answered(edited, "Edit mode")
            /\ UNCHANGED <<store, auto_threads, search_threads, history>>
       ELSE IF action = <<"skip">>
       THEN /\ posts' = update_post_status(posts, post_id, "skipped")
            /\ history' = Recorded(history, posts')
            /\ reply' = answered(edited, "Skipped")
            /\ UNCHANGED <<approvals, account_checks, accounts_json, user_data,
                           auto_threads, search_threads>>
       ELSE IF action = <<"watch">>
       THEN LET handle == post.author_handle
            IN IF handle = ""
               THEN /\ reply' = answered(edited, "No handle found")
                    /\ UNCHANGED <<store, user_data, auto_threads, search_threads,
                                   history>>
               ELSE /\ accounts_json' = _add_to_accounts_json(accounts_json, handle)
                    /\ account_checks' = add_to_watchlist(account_checks, handle)
                    /\ reply' = answered(edited,
                                         IF accounts_json' # accounts_json
                                         THEN "added to watchlist"
                                         ELSE "already on watchlist")
                    /\ UNCHANGED <<posts, approvals, user_data, auto_threads,
                                   search_threads, history>>
       ELSE /\ reply' = "none"
            /\ UNCHANGED <<store, user_data, auto_threads, search_threads, history>>
    /\ Len(approvals') <= MaxApprovals

\* _ask_search_count
_ask_search_count(ud, topic) == [ud EXCEPT !.pending_search_topic = topic]

\* (handle_custom_comment_keep: editing_post_id is not popped.)
handle_custom_comment_keep(message_text) ==
    /\ UNCHANGED <<posters, gen, cards, probe>>
    /\ update_id < MaxUpdates
    /\ update_id' = update_id + 1
    /\ UNCHANGED <<account_checks, accounts_json, auto_threads, search_threads,
                   run, now>>
    /\ LET post_id == user_data.editing_post_id
           text == strip(message_text)
           post == get_post(posts, post_id)
       IN
       IF post_id = NULL
       THEN /\ UNCHANGED <<posts, comments, approvals, history>>
            /\ IF text = ""
               THEN /\ reply' = "none"
                    /\ UNCHANGED user_data
               ELSE /\ reply' = "How many posts?"
                    /\ user_data' = _ask_search_count(user_data, text)
       ELSE IF ~post_found(post)
       THEN /\ reply' = "Post not found"
            /\ UNCHANGED <<posts, comments, approvals, history, user_data>>
       ELSE /\ reply' = "Custom comment saved"
            /\ comments' = insert_comment(comments, post_id, "custom", text, <<>>)
            /\ LET cid == Len(comments')
               IN approvals' = insert_approval(approvals, post_id, cid,
                                               <<"custom">>, text)
            /\ posts' = update_post_status(posts, post_id, "approved")
            /\ history' = Recorded(history, posts')
            /\ UNCHANGED user_data
    /\ Len(approvals') <= MaxApprovals

handle_custom_comment(message_text) ==
    /\ UNCHANGED <<posters, gen, cards, probe>>
    /\ update_id < MaxUpdates
    /\ update_id' = update_id + 1
    /\ UNCHANGED <<account_checks, accounts_json, auto_threads, search_threads,
                   run, now>>
    /\ LET post_id == user_data.editing_post_id
           text == strip(message_text)
           post == get_post(posts, post_id)
       IN
       IF post_id = NULL
       THEN /\ UNCHANGED <<posts, comments, approvals, history>>
            /\ IF text = ""
               THEN /\ reply' = "none"
                    /\ UNCHANGED user_data
               ELSE /\ reply' = "How many posts?"
                    /\ user_data' = _ask_search_count(user_data, text)
       ELSE IF ~post_found(post)
       THEN /\ reply' = "Post not found"
            /\ UNCHANGED <<posts, comments, approvals, history, user_data>>
       ELSE /\ reply' = "Custom comment saved"
            /\ comments' = insert_comment(comments, post_id, "custom", text, <<>>)
            /\ LET cid == Len(comments')
               IN approvals' = insert_approval(approvals, post_id, cid,
                                               <<"custom">>, text)
            /\ posts' = update_post_status(posts, post_id, "approved")
            /\ history' = Recorded(history, posts')
            /\ user_data' = [user_data EXCEPT !.editing_post_id = NULL]
    /\ Len(approvals') <= MaxApprovals

cmd_cancel ==
    /\ UNCHANGED <<posters, gen, cards, probe>>
    /\ update_id < MaxUpdates
    /\ update_id' = update_id + 1
    /\ user_data' = [user_data EXCEPT !.editing_post_id = NULL]
    /\ reply' = "Cancelled."
    /\ UNCHANGED <<store, auto_threads, search_threads, run, now, history>>

----------------------------------------------------------------------------
(* _run_auto_post, one thread per auto approval.  Its steps are the reply
   attempt (modules/autoposter.py, a browser session), its two store writes
   and the notification. *)

\* msg of the success branch: "Auto-posted! (TONE_LABEL[tone])", the url and
\* the comment.
msg_posted(tone, tweet_url, comment) ==
    [kind |-> "posted", tone |-> tone, tweet_url |-> tweet_url, comment |-> comment]

\* msg of the else branch: "Auto-post failed - post manually", the url and
\* the comment to copy and paste.
msg_failed_no_text(tweet_url, comment) ==
    [kind |-> "failed", tone |-> NULL, tweet_url |-> tweet_url, comment |-> ""]

msg_failed(tweet_url, comment) ==
    [kind |-> "failed", tone |-> NULL, tweet_url |-> tweet_url, comment |-> comment]

\* success = auto_post_reply(tweet_url, comment); the else branch builds msg
\* and writes nothing.  (auto_post_reply_notify_first: the success message
\* built before the two writes.)
auto_post_reply_notify_first(a, success) ==
    /\ UNCHANGED <<posters, gen, cards, probe>>
    /\ a \in DOMAIN auto_threads
    /\ auto_threads[a].pc = "auto_post_reply"
    /\ auto_threads' =
         [auto_threads EXCEPT ![a] =
            IF success
            THEN [@ EXCEPT !.pc = "notify",
                           !.msg = msg_posted(auto_threads[a].tone, auto_threads[a].tweet_url,
                                            auto_threads[a].comment)]
            ELSE [@ EXCEPT !.pc = "notify",
                           !.msg = msg_failed(auto_threads[a].tweet_url,
                                            auto_threads[a].comment)]]
    /\ UNCHANGED <<store, user_data, search_threads, run, now, update_id, reply, history>>

auto_post_reply(a, success) ==
    /\ UNCHANGED <<posters, gen, cards, probe>>
    /\ a \in DOMAIN auto_threads
    /\ auto_threads[a].pc = "auto_post_reply"
    /\ auto_threads' =
         [auto_threads EXCEPT ![a] =
            IF success THEN [@ EXCEPT !.pc = "mark_posted"]
            ELSE [@ EXCEPT !.pc = "notify",
                           !.msg = msg_failed(auto_threads[a].tweet_url,
                                            auto_threads[a].comment)]]
    /\ UNCHANGED <<store, user_data, search_threads, run, now, update_id, reply, history>>

run_mark_posted(a) ==
    /\ UNCHANGED <<posters, gen, cards, probe>>
    /\ a \in DOMAIN auto_threads
    /\ auto_threads[a].pc = "mark_posted"
    /\ approvals' = mark_posted(approvals, auto_threads[a].approval_id, now)
    /\ now' = now + 1
    /\ auto_threads' = [auto_threads EXCEPT ![a].pc = "update_post_status"]
    /\ UNCHANGED <<posts, comments, account_checks, accounts_json, user_data,
                   search_threads, run, update_id, reply, history>>

run_update_post_status(a) ==
    /\ UNCHANGED <<posters, gen, cards, probe>>
    /\ a \in DOMAIN auto_threads
    /\ auto_threads[a].pc = "update_post_status"
    /\ posts' = update_post_status(posts, auto_threads[a].post_id, "posted")
    /\ history' = Recorded(history, posts')
    /\ auto_threads' =
         [auto_threads EXCEPT ![a] =
            [@ EXCEPT !.pc = "notify",
                      !.msg = msg_posted(auto_threads[a].tone, auto_threads[a].tweet_url,
                                            auto_threads[a].comment)]]
    /\ UNCHANGED <<comments, approvals, account_checks, accounts_json, user_data,
                   search_threads, run, now, update_id, reply>>

\* asyncio.run(_notify()): send_message is called with msg, and the thread
\* ends, whether the call returns or raises (the exception is logged).
_notify(a) ==
    /\ UNCHANGED <<posters, gen, cards, probe>>
    /\ a \in DOMAIN auto_threads
    /\ auto_threads[a].pc = "notify"
    /\ auto_threads' = [auto_threads EXCEPT ![a].pc = "done"]
    /\ UNCHANGED <<store, user_data, search_threads, run, now, update_id, reply,
                   history>>

----------------------------------------------------------------------------
(* modules/autoposter.py: AutoPoster, one object per auto_post_reply call.
   driver is 0 for None, else the browser session _build_driver made for
   this object (sessions are numbered by the object that built them);
   session says what became of it; pc is where post_reply stands and result
   what it returned. *)

\* AutoPoster.__init__
AutoPoster == [driver |-> 0, session |-> "none", pc |-> "_start", result |-> NULL]

\* if self.driver: try: self.driver.quit() except: pass; self.driver = None
_quit_leak(self, raised) == self

_quit(self, raised) ==
    IF self.driver # 0
    THEN [self EXCEPT !.driver = 0,
                      !.session = IF raised THEN "quit raised" ELSE "closed"]
    ELSE self

\* What the browser does at each stage of post_reply: all is well, a wait
\* runs into TimeoutException, or another exception is raised.  In _start,
\* _build_driver itself may raise, or the cookie file may be missing.
Outcomes(pc) ==
    CASE pc = "_start" -> {"ok", "build raises", "raises", "no cookies"}
      [] pc \in {"step1", "step2", "step4"} -> {"ok", "timeout", "raises"}
      [] pc \in {"get", "step3", "step5"} -> {"ok", "raises"}
      [] OTHER -> {}

next_pc(pc) ==
    CASE pc = "_start" -> "get" [] pc = "get" -> "step1"
      [] pc = "step1" -> "step2" [] pc = "step2" -> "step3"
      [] pc = "step3" -> "step4" [] pc = "step4" -> "step5"
      [] OTHER -> "finally"

\* self._start(): the driver is built, then the cookies are loaded; without
\* cookies it quits the driver and returns False.
_start(self, i, outcome, raised) ==
    CASE outcome = "build raises" -> self
      [] outcome = "no cookies" ->
           _quit([self EXCEPT !.driver = i, !.session = "open"], raised)
      [] OTHER -> [self EXCEPT !.driver = i, !.session = "open"]

\* auto_post_reply: poster = AutoPoster()
auto_post_reply_new ==
    /\ Len(posters) < MaxPosters
    /\ posters' = Append(posters, AutoPoster)
    /\ UNCHANGED <<bot_vars, gen, probe>>

\* One stage of the try block of post_reply.  "return False", an exception
\* (caught, "return False") and the final "return True" all lead to the
\* finally clause.
post_reply(i, outcome, raised) ==
    /\ i \in DOMAIN posters
    /\ outcome \in Outcomes(posters[i].pc)
    /\ LET self == posters[i]
           started == IF self.pc = "_start" THEN _start(self, i, outcome, raised)
                      ELSE self
       IN posters' =
            [posters EXCEPT ![i] =
               IF outcome = "ok"
               THEN [started EXCEPT !.pc = next_pc(self.pc),
                                    !.result = IF self.pc = "step5" THEN "True"
                                               ELSE NULL]
               ELSE [started EXCEPT !.pc = "finally", !.result = "False"]]
    /\ UNCHANGED <<bot_vars, gen, probe>>

\* finally: self._quit(), and post_reply returns.
post_reply_finally(i, raised) ==
    /\ i \in DOMAIN posters
    /\ posters[i].pc = "finally"
    /\ posters' = [posters EXCEPT ![i] = [_quit(@, raised) EXCEPT !.pc = "returned"]]
    /\ UNCHANGED <<bot_vars, gen, probe>>

\* Step 3 of post_reply: safe_comment = comment[:270].  A text is the
\* sequence of its characters.
safe_comment_len == 270

safe_comment(comment) ==
    SubSeq(comment, 1, IF Len(comment) < safe_comment_len THEN Len(comment)
                       ELSE safe_comment_len)

\* validate_comment: if len(comment) > 280: "Over Twitter limit"
twitter_limit == 280

over_twitter_limit(comment) == Len(comment) > twitter_limit

----------------------------------------------------------------------------
(* modules/on_demand.py: run_search, one thread per scount token *)

\* [p for p in raw if p.id not in seen_ids], then the first occurrence of
\* each id (seen_this).
RECURSIVE unique_new(_, _)
unique_new(raw, seen) ==
    IF raw = <<>> THEN <<>>
    ELSE IF Head(raw) \in seen THEN unique_new(Tail(raw), seen)
    ELSE <<Head(raw)>> \o unique_new(Tail(raw), seen \cup {Head(raw)})

\* unique.sort(key=views, reverse=True): a stable sort, highest views first.
RECURSIVE sort_by_views(_)
sort_by_views(ids) ==
    IF ids = <<>> THEN <<>>
    ELSE LET best == CHOOSE i \in DOMAIN ids :
                       /\ \A j \in DOMAIN ids : RawPost(ids[j]).views <= RawPost(ids[i]).views
                       /\ \A j \in 1..(i - 1) : RawPost(ids[j]).views < RawPost(ids[i]).views
             rest == [k \in 1..(Len(ids) - 1) |-> IF k < best THEN ids[k] ELSE ids[k + 1]]
         IN <<ids[best]>> \o sort_by_views(rest)

top_n(ids, count) == SubSeq(ids, 1, IF count < Len(ids) THEN count ELSE Len(ids))

\* The scrape and the selection of top_posts against the ids seen so far; a
\* scrape that raises ends the search.
search_scrape(i, raw_posts, raised) ==
    /\ UNCHANGED <<posters, gen, cards, probe>>
    /\ i \in DOMAIN search_threads
    /\ search_threads[i].pc = "scrape"
    /\ LET seen_ids == get_already_seen_ids(posts)
           unique == unique_new(raw_posts, seen_ids)
           top_posts == top_n(sort_by_views(unique), search_threads[i].count)
       IN search_threads' =
            [search_threads EXCEPT ![i] =
               IF raised \/ top_posts = <<>>
               THEN [@ EXCEPT !.pc = "done"]
               ELSE [@ EXCEPT !.pc = "send", !.top_posts = top_posts]]
    /\ UNCHANGED <<store, user_data, auto_threads, run, now, update_id, reply, history>>

\* One turn of "for i, post in enumerate(top_posts, 1)": insert_post, then
\* the post-only card; the thread's i counts the turns done.
search_send(i) ==
    /\ UNCHANGED <<posters, gen, cards, probe>>
    /\ i \in DOMAIN search_threads
    /\ search_threads[i].pc = "send"
    /\ LET t == search_threads[i]
           post == RawPost(t.top_posts[t.i + 1])
       IN /\ posts' = insert_post(posts, post)
          /\ search_threads' =
               [search_threads EXCEPT ![i].i = t.i + 1,
                                      ![i].pc = IF t.i + 1 = Len(t.top_posts)
                                                THEN "done" ELSE "send"]
    /\ history' = Recorded(history, posts')
    /\ UNCHANGED <<comments, approvals, account_checks, accounts_json, user_data,
                   auto_threads, run, now, update_id, reply>>

----------------------------------------------------------------------------
(* modules/generator.py: generate_comments and _call_llm.  gen is one call
   of generate_comments: the tones still to do, the results so far, and the
   provider calls made, in order. *)

NoGen == [pc |-> "idle", provider |-> NULL, tones |-> <<>>, results |-> <<>>,
          calls |-> <<>>]

\* cfg.get("llm_provider", "groq")
Providers == {"groq", "gemini"}

\* The provider of the except branch of _call_llm.
fallback_same(provider) == provider

fallback(provider) == IF provider = "groq" THEN "gemini" ELSE "groq"

\* What a provider call does: it raises, or returns a text, a long one that
\* names the tone or a two-letter one, or returns a completion that is
\* empty once .strip() has been applied.
LLMOutcomes == {"raise", "long", "short", "empty"}

LLMText(provider, tone, outcome) ==
    IF outcome = "empty" THEN ""
    ELSE IF outcome = "short"
    THEN (IF provider = "groq" THEN "ok" ELSE "no")
    ELSE IF provider = "groq"
    THEN CASE tone = "challenge" -> "groq: challenge, RLHF"
           [] tone = "expand" -> "groq: expand, RLHF"
           [] tone = "nuanced" -> "groq: nuanced, RLHF"
           [] OTHER -> "groq: question, RLHF"
    ELSE CASE tone = "challenge" -> "gemini: challenge, RLHF"
           [] tone = "expand" -> "gemini: expand, RLHF"
           [] tone = "nuanced" -> "gemini: nuanced, RLHF"
           [] OTHER -> "gemini: question, RLHF"

\* validate_comment(text)[1]: the long texts stand for 150 to 280 characters
\* with a domain term, the short ones and the empty one have neither.
validate_comment(comment) ==
    IF comment \in {"ok", "no", ""}
    THEN <<"Too short", "No technical depth">>
    ELSE <<>>

\* What generate_comments returns for a post, tone -> (text, issues): four
\* texts that pass validation; or a text with issues for "question" and
\* ("", ["Generation failed: ..."]) for "nuanced", where both providers
\* failed.
GenOutcomes ==
    {[t \in ToneSet |-> [text |-> GenText(t), issues |-> validate_comment(GenText(t))]],
     [t \in ToneSet |->
        CASE t = "question" -> [text |-> "", issues |-> <<"Generation failed">>]
          [] OTHER -> [text |-> GenText(t), issues |-> validate_comment(GenText(t))]]}

\* results[tone] = (text, issues), and on to the next tone of PROMPTS.
results_set(g, tone, text, issues) ==
    [g EXCEPT !.results = (tone :> [text |-> text, issues |-> issues]) @@ @,
              !.tones = Tail(@),
              !.pc = IF Tail(g.tones) = <<>> THEN "returned" ELSE "_call_llm"]

\* generate_comments(post, config) is called.
generate_comments(provider) ==
    /\ gen.pc \in {"idle", "returned"}
    /\ gen' = [pc |-> "_call_llm", provider |-> provider, tones |-> TONES,
               results |-> <<>>, calls |-> <<>>]
    /\ UNCHANGED <<bot_vars, posters, probe>>

\* _call_llm, the try: the call of the configured provider.
_call_llm(outcome) ==
    /\ gen.pc = "_call_llm"
    /\ LET tone == Head(gen.tones)
           text == LLMText(gen.provider, tone, outcome)
           called == [gen EXCEPT !.calls =
                        Append(@, [tone |-> tone, provider |-> gen.provider,
                                   outcome |-> outcome])]
       IN gen' = IF outcome = "raise"
                 THEN [called EXCEPT !.pc = "except"]
                 ELSE results_set(called, tone, text, validate_comment(text))
    /\ UNCHANGED <<bot_vars, posters, probe>>

\* _call_llm, the except: one call of the other provider; when that raises
\* too, generate_comments records ("", ["Generation failed: ..."]).
\* (_call_llm_except_abort: the exception ends generate_comments.)
_call_llm_except_abort(outcome) ==
    /\ gen.pc = "except"
    /\ LET tone == Head(gen.tones)
           provider == fallback(gen.provider)
           text == LLMText(provider, tone, outcome)
           called == [gen EXCEPT !.calls =
                        Append(@, [tone |-> tone, provider |-> provider,
                                   outcome |-> outcome])]
       IN gen' = IF outcome = "raise"
                 THEN [called EXCEPT !.pc = "returned"]
                 ELSE results_set(called, tone, text, validate_comment(text))
    /\ UNCHANGED <<bot_vars, posters, probe>>

_call_llm_except(outcome) ==
    /\ gen.pc = "except"
    /\ LET tone == Head(gen.tones)
           provider == fallback(gen.provider)
           text == LLMText(provider, tone, outcome)
           called == [gen EXCEPT !.calls =
                        Append(@, [tone |-> tone, provider |-> provider,
                                   outcome |-> outcome])]
       IN gen' = IF outcome = "raise"
                 THEN results_set(called, tone, "", <<"Generation failed">>)
                 ELSE results_set(called, tone, text, validate_comment(text))
    /\ UNCHANGED <<bot_vars, posters, probe>>

----------------------------------------------------------------------------
(* modules/scraper.py: the discovery functions *)

\* discover_posts_by_topic: per keyword, the scraped posts whose id is not
\* in seen_ids, appended to all_posts; a keyword whose scrape raises adds
\* nothing.
\* (discover_posts_by_topic_abort: the first scrape that raises ends the
\* loop.)
RECURSIVE discover_posts_by_topic_abort(_, _)
discover_posts_by_topic_abort(scrapes, seen_ids) ==
    IF scrapes = <<>> \/ Head(scrapes).raised THEN <<>>
    ELSE SelectSeq(Head(scrapes).posts, LAMBDA p : p.id \notin seen_ids)
         \o discover_posts_by_topic_abort(Tail(scrapes), seen_ids)

RECURSIVE discover_posts_by_topic(_, _)
discover_posts_by_topic(scrapes, seen_ids) ==
    IF scrapes = <<>> THEN <<>>
    ELSE LET new == IF Head(scrapes).raised THEN <<>>
                    ELSE SelectSeq(Head(scrapes).posts,
                                   LAMBDA p : p.id \notin seen_ids)
         IN new \o discover_posts_by_topic(Tail(scrapes), seen_ids)

\* check_every_hours and priority of an accounts.json entry: those that
\* _add_to_accounts_json writes (a "medium" priority is a boost of 1).
check_every_hours == 6

priority_boost == 1

\* database.py, get_last_check_time: the stored time, or None (0) for no
\* row and for a row with NULL.
get_last_check_time(checks, handle) ==
    IF handle \in DOMAIN checks THEN checks[handle] ELSE 0

\* Whether an account is polled: it has no last check, or the last one is
\* at least interval_hours old; and whether the poll succeeds.
\* (polled_any: the interval is not looked at.)
polled_any(checks, handle, poll) == ~poll.raised

polled(checks, handle, poll) ==
    /\ \/ get_last_check_time(checks, handle) = 0
       \/ ~(poll.elapsed < check_every_hours)
    /\ ~poll.raised

\* check_monitored_accounts, the posts: per polled account, the scraped
\* posts whose id is not in seen_ids, marked with the account's boost.
\* (check_monitored_accounts_abort: a poll that raises ends the loop.)
RECURSIVE check_monitored_accounts_abort(_, _, _, _)
check_monitored_accounts_abort(accounts, polls, checks, seen_ids) ==
    IF accounts = <<>> THEN <<>>
    ELSE LET handle == Head(accounts)
             new == SelectSeq(polls[handle].posts, LAMBDA p : p.id \notin seen_ids)
             marked == [k \in DOMAIN new |->
                          [new[k] EXCEPT !.priority_boost = priority_boost,
                                         !.source = "account_monitor"]]
         IN IF /\ polls[handle].raised
               /\ polled(checks, handle, [polls[handle] EXCEPT !.raised = FALSE])
            THEN <<>>
            ELSE (IF polled(checks, handle, polls[handle]) THEN marked ELSE <<>>)
                 \o check_monitored_accounts_abort(Tail(accounts), polls, checks,
                                                   seen_ids)

RECURSIVE check_monitored_accounts(_, _, _, _)
check_monitored_accounts(accounts, polls, checks, seen_ids) ==
    IF accounts = <<>> THEN <<>>
    ELSE LET handle == Head(accounts)
             new == SelectSeq(polls[handle].posts, LAMBDA p : p.id \notin seen_ids)
             marked == [k \in DOMAIN new |->
                          [new[k] EXCEPT !.priority_boost = priority_boost,
                                         !.source = "account_monitor"]]
         IN (IF polled(checks, handle, polls[handle]) THEN marked ELSE <<>>)
            \o check_monitored_accounts(Tail(accounts), polls, checks, seen_ids)

\* check_monitored_accounts, its writes: db.update_last_check_time(handle)
\* after each poll that succeeded.
\* (update_last_check_times_before: the write is made before the poll.)
update_last_check_times_before(accounts, polls, checks, ts) ==
    LET done == {accounts[k] : k \in DOMAIN accounts}
                \cap {h \in DOMAIN polls :
                        polled(checks, h, [polls[h] EXCEPT !.raised = FALSE])}
    IN [h \in DOMAIN checks \cup done |-> IF h \in done THEN ts ELSE checks[h]]

update_last_check_times(accounts, polls, checks, ts) ==
    LET done == {accounts[k] : k \in DOMAIN accounts}
                \cap {h \in DOMAIN polls : polled(checks, h, polls[h])}
    IN [h \in DOMAIN checks \cup done |-> IF h \in done THEN ts ELSE checks[h]]

----------------------------------------------------------------------------
(* modules/filter.py *)

min_score == 8

min_views == 1000

min_author_followers == 1000

\* str.lower() of the texts there are.
text_lower(text) ==
    CASE text = "Hot Take: RLHF is DEAD" -> "hot take: rlhf is dead"
      [] OTHER -> text

\* The phrases of the two lists of score_post that are substrings of a text.
substrings(text) ==
    CASE text = "hot take: rlhf is dead" -> {"hot take", "dead"}
      [] text = "lora is better than full finetuning" -> {"better than"}
      [] text = "rag vs finetuning, compared to prompting" ->
            {"vs ", " vs", "compared to"}
      [] OTHER -> {}

debatable ==
    {"vs ", " vs", "dying", "dead", "overhyped", "wrong", "actually",
     "controversial", "unpopular opinion", "hot take", "disagree",
     "overrated", "underrated", "nobody talks about", "stop using",
     "replace", "killed", "extinct", "broken"}

comparison == {"better than", "worse than", "compared to", "difference between"}

\* The terms of score_post, in the order of the function.  created_at is
\* m minutes before now, so hours_old is m / 60 and the velocity
\* views / hours_old is above v when views * 60 > v * m.
\* (followers_term_ge, views_term_band: other tiers.)
followers_term_ge(followers) ==
    IF followers >= 50000 THEN 5
    ELSE IF followers >= 10000 THEN 3
    ELSE IF followers >= 1000 THEN 1 ELSE 0

followers_term(followers) ==
    IF followers > 50000 THEN 5
    ELSE IF followers > 10000 THEN 3
    ELSE IF followers > 1000 THEN 1 ELSE 0

views_term_band(views) ==
    IF views > 10000 THEN 2
    ELSE IF views > 5000 THEN 3
    ELSE IF views > 1000 THEN 2 ELSE 0

views_term(views) ==
    IF views > 10000 THEN 5
    ELSE IF views > 5000 THEN 3
    ELSE IF views > 1000 THEN 2 ELSE 0

velocity_term(views, created_at) ==
    IF created_at # <<>> /\ created_at[1] > 0
    THEN (IF views * 60 > 1000 * created_at[1] THEN 4
          ELSE IF views * 60 > 500 * created_at[1] THEN 2 ELSE 0)
    ELSE 0

\* (recency_term_both: the two recency tiers add up.)
recency_term_both(created_at) ==
    IF created_at # <<>>
    THEN (IF created_at[1] < 3 * 60 THEN 3 ELSE 0)
         + (IF created_at[1] < 12 * 60 THEN 1 ELSE 0)
    ELSE 0

recency_term(created_at) ==
    IF created_at # <<>>
    THEN (IF created_at[1] < 3 * 60 THEN 3
          ELSE IF created_at[1] < 12 * 60 THEN 1 ELSE 0)
    ELSE 0

score_post(post) ==
    followers_term(post.author_followers)
    + views_term(post.views)
    + velocity_term(post.views, post.created_at)
    + (IF post.author_verified THEN 2 ELSE 0)
    + (IF post.likes > 50 THEN 2 ELSE 0)
    + (IF post.replies > 10 THEN 2 ELSE 0)
    + recency_term(post.created_at)
    + post.priority_boost
    + (IF post.views > 5000 /\ post.replies < 20 THEN 3 ELSE 0)
    + (IF substrings(text_lower(post.text)) \cap debatable # {} THEN 2 ELSE 0)
    + (IF substrings(text_lower(post.text)) \cap comparison # {} THEN 1 ELSE 0)

max_post_age_hours == 24

\* The config of a run, as far as filter_and_rank_posts reads it.
config ==
    [min_score |-> min_score, min_views |-> min_views,
     min_author_followers |-> min_author_followers,
     top_n_posts |-> top_n_posts, max_post_age_hours |-> max_post_age_hours]

\* The age filter and the minimum thresholds of the loop: whether they make
\* it skip a post.  created_at is in minutes, hours_old is created_at / 60.
\* (below_thresholds_zero: a count of 0 is below the minimum too.)
below_thresholds_zero(post, cfg) ==
    \/ post.created_at # <<>> /\ post.created_at[1] > cfg.max_post_age_hours * 60
    \/ post.views < cfg.min_views
    \/ post.author_followers < cfg.min_author_followers

below_thresholds(post, cfg) ==
    \/ post.created_at # <<>> /\ post.created_at[1] > cfg.max_post_age_hours * 60
    \/ post.views > 0 /\ post.views < cfg.min_views
    \/ post.author_followers > 0 /\ post.author_followers < cfg.min_author_followers

\* The loop of filter_and_rank_posts: the first occurrence of each id, if it
\* is not stored, passes the thresholds and scores at least min_score.
\* (candidates_any: an id is marked as seen only once it has been kept.)
RECURSIVE candidates_any(_, _, _, _)
candidates_any(all_posts, seen_this_run, seen_db_ids, cfg) ==
    IF all_posts = <<>> THEN <<>>
    ELSE LET post == Head(all_posts)
             rest == Tail(all_posts)
             scored == [post EXCEPT !.score = score_post(post),
                                    !.source = IF @ = NULL THEN "topic_search"
                                               ELSE @]
         IN IF post.id \in seen_this_run
            THEN candidates_any(rest, seen_this_run, seen_db_ids, cfg)
            ELSE IF \/ post.id \in seen_db_ids
                    \/ below_thresholds(post, cfg)
                    \/ ~(scored.score >= cfg.min_score)
            THEN candidates_any(rest, seen_this_run, seen_db_ids, cfg)
            ELSE <<scored>>
                 \o candidates_any(rest, seen_this_run \cup {post.id}, seen_db_ids,
                                   cfg)

RECURSIVE candidates(_, _, _, _)
candidates(all_posts, seen_this_run, seen_db_ids, cfg) ==
    IF all_posts = <<>> THEN <<>>
    ELSE LET post == Head(all_posts)
             rest == Tail(all_posts)
             seen == seen_this_run \cup {post.id}
             scored == [post EXCEPT !.score = score_post(post),
                                    !.source = IF @ = NULL THEN "topic_search"
                                               ELSE @]
         IN IF post.id \in seen_this_run
            THEN candidates(rest, seen_this_run, seen_db_ids, cfg)
            ELSE IF \/ post.id \in seen_db_ids
                    \/ below_thresholds(post, cfg)
                    \/ ~(scored.score >= cfg.min_score)
            THEN candidates(rest, seen, seen_db_ids, cfg)
            ELSE <<scored>> \o candidates(rest, seen, seen_db_ids, cfg)

\* candidates.sort(key=score, reverse=True): a stable sort, highest first.
\* (sort_by_score_last: of equal scores the later one comes first.)
RECURSIVE sort_by_score_last(_)
sort_by_score_last(ps) ==
    IF ps = <<>> THEN <<>>
    ELSE LET best == CHOOSE i \in DOMAIN ps :
                       /\ \A j \in DOMAIN ps : ps[j].score <= ps[i].score
                       /\ \A j \in (i + 1)..Len(ps) : ps[j].score < ps[i].score
             rest == [k \in 1..(Len(ps) - 1) |-> IF k < best THEN ps[k] ELSE ps[k + 1]]
         IN <<ps[best]>> \o sort_by_score_last(rest)

RECURSIVE sort_by_score(_)
sort_by_score(ps) ==
    IF ps = <<>> THEN <<>>
    ELSE LET best == CHOOSE i \in DOMAIN ps :
                       /\ \A j \in DOMAIN ps : ps[j].score <= ps[i].score
                       /\ \A j \in 1..(i - 1) : ps[j].score < ps[i].score
             rest == [k \in 1..(Len(ps) - 1) |-> IF k < best THEN ps[k] ELSE ps[k + 1]]
         IN <<ps[best]>> \o sort_by_score(rest)

filter_and_rank_posts(posts_in, seen_db_ids, cfg) ==
    top_n(sort_by_score(candidates(posts_in, {}, seen_db_ids, cfg)), cfg.top_n_posts)

----------------------------------------------------------------------------
(* main.py: run_once *)

\* for tone, (text, issues) in comments.items(): if text: db.insert_comment
\* (insert_comments_valid: only the texts without issues are stored.)
RECURSIVE insert_comments_valid(_, _, _, _)
insert_comments_valid(tbl, post_id, results, tones) ==
    IF tones = <<>> THEN tbl
    ELSE LET tone == Head(tones)
             next == IF results[tone].text # "" /\ results[tone].issues = <<>>
                     THEN insert_comment(tbl, post_id, tone, results[tone].text,
                                         results[tone].issues)
                     ELSE tbl
         IN insert_comments_valid(next, post_id, results, Tail(tones))

RECURSIVE insert_comments(_, _, _, _)
insert_comments(tbl, post_id, results, tones) ==
    IF tones = <<>> THEN tbl
    ELSE LET tone == Head(tones)
             next == IF results[tone].text # ""
                     THEN insert_comment(tbl, post_id, tone, results[tone].text,
                                         results[tone].issues)
                     ELSE tbl
         IN insert_comments(next, post_id, results, Tail(tones))

\* modules/telegram_bot.py, format_message: the comment lines of the card,
\* a letter line and the text for each tone of TONES whose text is not empty.
RECURSIVE format_message(_, _)
format_message(results, tones) ==
    IF tones = <<>> THEN <<>>
    ELSE (IF results[Head(tones)].text # ""
          THEN <<[tone |-> Head(tones), text |-> results[Head(tones)].text]>>
          ELSE <<>>)
         \o format_message(results, Tail(tones))

\* run_once is not running.
NoRun == [pc |-> "idle", scrapes |-> <<>>, polls |-> <<>>, last_check |-> <<>>,
          all_posts |-> <<>>, ranked |-> <<>>, posts_with_comments |-> <<>>]

\* STEP 1: seen_ids is read, every keyword is searched and every account due
\* is polled; all_posts is what both found.  scrapes and polls are what the
\* searches and the polls returned and last_check what get_last_check_time
\* returned for each account, kept for the length of the run.
run_discover(scrapes, polls) ==
    /\ UNCHANGED <<posters, gen, cards, probe>>
    /\ run.pc = "idle"
    /\ LET seen_ids == get_already_seen_ids(posts)
           accounts == accounts_json
           topic_posts == discover_posts_by_topic(scrapes, seen_ids)
           account_posts == check_monitored_accounts(accounts, polls,
                                                     account_checks, seen_ids)
           all_posts == topic_posts \o account_posts
       IN /\ account_checks' = update_last_check_times(accounts, polls,
                                                       account_checks, now)
          /\ IF account_checks' # account_checks
             THEN now < MaxClock /\ now' = now + 1
             ELSE now' = now
          /\ run' = IF all_posts = <<>> THEN NoRun
                    ELSE [pc |-> "filter", scrapes |-> scrapes,
                          polls |-> [h \in {accounts[k] : k \in DOMAIN accounts}
                                       |-> polls[h]],
                          last_check |->
                              [h \in {accounts[k] : k \in DOMAIN accounts}
                                 |-> get_last_check_time(account_checks, h)],
                          all_posts |-> all_posts, ranked |-> <<>>,
                          posts_with_comments |-> <<>>]
    /\ UNCHANGED <<posts, comments, approvals, accounts_json, user_data,
                   auto_threads, search_threads, update_id, reply, history>>

\* STEP 2: filter_and_rank_posts, against the ids stored by now; STEPS 3
\* and 4 work on ranked[:10].
run_filter ==
    /\ UNCHANGED <<posters, gen, cards, probe>>
    /\ run.pc = "filter"
    /\ LET ranked == filter_and_rank_posts(run.all_posts,
                                           get_already_seen_ids(posts), config)
       IN run' = IF ranked = <<>> THEN NoRun
                 ELSE [run EXCEPT !.pc = "generate", !.ranked = top_n(ranked, 10)]
    /\ UNCHANGED <<store, user_data, auto_threads, search_threads, now, update_id,
                   reply, history>>

\* STEP 4, one turn of "for post in ranked[:10]": insert_post,
\* generate_comments, an insert_comment per non-empty text, and the post
\* and its comments appended to posts_with_comments; an exception out of
\* generate_comments is logged and the loop goes on.  After the last turn
\* STEP 5 starts, over what posts_with_comments holds.
\* (run_generate_abort: the exception ends the run.)
run_generate_abort(results, raised) ==
    /\ UNCHANGED <<posters, gen, cards, probe>>
    /\ run.pc = "generate"
    /\ LET post == Head(run.ranked)
           rest == Tail(run.ranked)
           items == Append(run.posts_with_comments,
                           [post |-> post, comments |-> results])
       IN /\ posts' = insert_post(posts, post)
          /\ comments' = IF raised THEN comments
                         ELSE insert_comments(comments, post.id, results, TONES)
          /\ run' = IF raised THEN NoRun
                    ELSE IF rest # <<>>
                    THEN [run EXCEPT !.ranked = rest, !.posts_with_comments = items]
                    ELSE [run EXCEPT !.pc = "send", !.ranked = rest,
                                     !.posts_with_comments = items]
    /\ history' = Recorded(history, posts')
    /\ UNCHANGED <<approvals, account_checks, accounts_json, user_data,
                   auto_threads, search_threads, now, update_id, reply>>

run_generate(results, raised) ==
    /\ UNCHANGED <<posters, gen, cards, probe>>
    /\ run.pc = "generate"
    /\ LET post == Head(run.ranked)
           rest == Tail(run.ranked)
           items == IF raised THEN run.posts_with_comments
                    ELSE Append(run.posts_with_comments,
                                [post |-> post, comments |-> results])
       IN /\ posts' = insert_post(posts, post)
          /\ comments' = IF raised THEN comments
                         ELSE insert_comments(comments, post.id, results, TONES)
          /\ run' = IF rest # <<>>
                    THEN [run EXCEPT !.ranked = rest, !.posts_with_comments = items]
                    ELSE IF items = <<>> THEN NoRun
                    ELSE [run EXCEPT !.pc = "send", !.ranked = rest,
                                     !.posts_with_comments = items]
    /\ history' = Recorded(history, posts')
    /\ UNCHANGED <<approvals, account_checks, accounts_json, user_data,
                   auto_threads, search_threads, now, update_id, reply>>

\* send_post for each item: the card of format_message is put in the chat,
\* or the send fails and returns False.
RECURSIVE send_posts(_, _, _)
send_posts(sent, items, oks) ==
    IF items = <<>> THEN sent
    ELSE LET item == Head(items)
             next == IF Head(oks)
                     THEN (item.post.id :> format_message(item.comments, TONES))
                          @@ sent
                     ELSE sent
         IN send_posts(next, Tail(items), Tail(oks))

\* STEP 5, "for item in posts_with_comments": send_post; oks is what each
\* send returned.
run_send(oks) ==
    /\ UNCHANGED <<posters, gen, probe>>
    /\ run.pc = "send"
    /\ Len(oks) = Len(run.posts_with_comments)
    /\ cards' = send_posts(cards, run.posts_with_comments, oks)
    /\ run' = NoRun
    /\ UNCHANGED <<store, user_data, auto_threads, search_threads, now, update_id,
                   reply, history>>

\* No call of score_post or filter_and_rank_posts has been made.
NoProbe == [f |-> NULL]

Init ==
    /\ posts = <<>>
    /\ comments = <<>>
    /\ approvals = <<>>
    /\ account_checks = <<>>
    /\ accounts_json = <<>>
    /\ user_data = [editing_post_id |-> NULL, pending_search_topic |-> NULL]
    /\ auto_threads = <<>>
    /\ search_threads = <<>>
    /\ run = NoRun
    /\ now = 1
    /\ update_id = 0
    /\ reply = "none"
    /\ history = [p \in PostIds |-> {}]
    /\ posters = <<>>
    /\ gen = NoGen
    /\ cards = <<>>
    /\ probe = NoProbe

Next ==
    \/ \E data \in Queries, edited \in BOOLEAN : button_callback(data, edited)
    \/ \E text \in MsgTexts : handle_custom_comment(text)
    \/ cmd_cancel
    \/ \E a \in DOMAIN auto_threads, success \in BOOLEAN : auto_post_reply(a, success)
    \/ \E a \in DOMAIN auto_threads : run_mark_posted(a)
    \/ \E a \in DOMAIN auto_threads : run_update_post_status(a)
    \/ \E a \in DOMAIN auto_threads : _notify(a)
    \/ \E i \in DOMAIN search_threads, raw \in RawBatches, raised \in BOOLEAN :
         search_scrape(i, raw, raised)
    \/ \E i \in DOMAIN search_threads : search_send(i)
    \/ \E scrapes \in BotScrapes, polls \in BotPolls : run_discover(scrapes, polls)
    \/ run_filter
    \/ \E results \in GenOutcomes, raised \in BOOLEAN : run_generate(results, raised)
    \/ \E oks \in {<<TRUE>>, <<TRUE, TRUE>>} : run_send(oks)

Spec == Init /\ [][Next]_vars

\* The browser sessions of the auto-poster on their own.
PosterNext ==
    \/ auto_post_reply_new
    \/ \E i \in DOMAIN posters :
          \E outcome \in Outcomes(posters[i].pc), raised \in BOOLEAN :
              post_reply(i, outcome, raised)
    \/ \E i \in DOMAIN posters, raised \in BOOLEAN : post_reply_finally(i, raised)

PosterSpec == Init /\ [][PosterNext]_vars

\* The runs with all that their searches and polls may return, beside an
\* on-demand search and a watch token.
RunQueries == {<<<<"scount">>, "2">>, <<<<"watch">>, "p1">>}

RunNext ==
    \/ \E scrapes \in RunScrapes, polls \in RunPolls : run_discover(scrapes, polls)
    \/ run_filter
    \/ \E results \in GenOutcomes, raised \in BOOLEAN : run_generate(results, raised)
    \/ \E n \in 1..3 : \E oks \in [1..n -> BOOLEAN] : run_send(oks)
    \/ \E data \in RunQueries : button_callback(data, TRUE)
    \/ handle_custom_comment("hi ")
    \/ \E i \in DOMAIN search_threads : search_scrape(i, <<"p2", "p1">>, FALSE)
    \/ \E i \in DOMAIN search_threads : search_send(i)

RunSpec == Init /\ [][RunNext]_vars

\* The generator on its own.
GenNext ==
    \/ \E provider \in Providers : generate_comments(provider)
    \/ \E outcome \in LLMOutcomes : _call_llm(outcome)
    \/ \E outcome \in LLMOutcomes : _call_llm_except(outcome)

GenSpec == Init /\ [][GenNext]_vars

\* The runs as far as the cards, with a generated text that fails
\* validation, and the taps on the buttons of the cards.
CardOutcomes ==
    GenOutcomes
    \cup {[t \in ToneSet |->
             IF t = "question" THEN [text |-> "ok", issues |-> validate_comment("ok")]
             ELSE [text |-> GenText(t), issues |-> validate_comment(GenText(t))]]}

CardQueries ==
    {<<<<k, t>>, p>> : k \in {"manual", "auto"}, t \in TapTones, p \in PostIds}

CardNext ==
    \/ \E scrapes \in BotScrapes, polls \in BotPolls : run_discover(scrapes, polls)
    \/ run_filter
    \/ \E results \in CardOutcomes, raised \in BOOLEAN : run_generate(results, raised)
    \/ \E n \in 1..2 : \E oks \in [1..n -> BOOLEAN] : run_send(oks)
    \/ \E data \in CardQueries, edited \in BOOLEAN : button_callback(data, edited)

CardSpec == Init /\ [][CardNext]_vars

\* The polls of two watched accounts: a run finds a tweet of each author,
\* or one that the filter drops; watch tokens put the authors on the list;
\* and then each poll finds a
\* tweet not seen before (p4 of alice, p5 of bob), finds a seen one, or
\* fails, 2 or 7 hours after the account's last check.
PollScrapes ==
    {<<Scrape(<<Tweet("p3", 12000), Tweet("p1", 12000)>>), Raised>>,
     <<Scrape(<<Tweet("p2", 500)>>), Raised>>}

PollOutcomes(h) ==
    {Raised,
     Scrape(<<Tweet(IF h = "alice" THEN "p1" ELSE "p3", 12000)>>),
     Scrape(<<Tweet(IF h = "alice" THEN "p4" ELSE "p5", 12000)>>)}

PollPolls ==
    {[h \in Handles |->
        [elapsed |-> e[h], raised |-> o[h].raised, posts |-> o[h].posts]] :
       e \in [Handles -> {2, 7}],
       o \in {f \in [Handles -> UNION {PollOutcomes(h) : h \in Handles}] :
                \A h \in Handles : f[h] \in PollOutcomes(h)}}

PollQueries ==
    {<<<<"watch">>, p>> : p \in {"p1", "p3"}} \cup {<<<<"manual", "question">>, "p1">>}

PollNext ==
    \/ \E scrapes \in PollScrapes, polls \in PollPolls : run_discover(scrapes, polls)
    \/ run_filter
    \/ \E results \in {r \in GenOutcomes : r["question"].text # ""} :
          run_generate(results, FALSE)
    \/ \E n \in 1..2 : run_send([k \in 1..n |-> TRUE])
    \/ \E data \in PollQueries : button_callback(data, TRUE)

PollSpec == Init /\ [][PollNext]_vars

\* score_post on its own: one call, on a post with any of these values.
FollowerCounts == {0, 1000, 10000, 50000, 60000}

ViewCounts == {0, 1000, 5000, 5001, 10000, 12000}

ScorePosts ==
    [id : {"p1"},
     url : {"https://x.com/alice/status/p1"},
     author_handle : {"alice"},
     author_followers : FollowerCounts,
     author_verified : BOOLEAN,
     text : {"llm evals", "Hot Take: RLHF is DEAD", "hot take: rlhf is dead",
             "lora is better than full finetuning",
             "rag vs finetuning, compared to prompting"},
     views : ViewCounts,
     likes : {50, 51},
     replies : {10, 11, 20},
     created_at : {<<>>, <<0>>, <<60>>, <<180>>, <<720>>, <<1500>>},
     priority_boost : {0, 1, 3},
     source : {NULL},
     score : {0}]

call_score_post(post) ==
    /\ probe = NoProbe
    /\ probe' = [f |-> "score_post", post |-> post, score |-> score_post(post)]
    /\ UNCHANGED <<bot_vars, posters, gen>>

ScoreNext ==
    \E post \in (IF probe = NoProbe THEN ScorePosts ELSE {}) : call_score_post(post)

ScoreSpec == Init /\ [][ScoreNext]_vars

\* filter_and_rank_posts on its own: one call, on a batch of up to MaxBatch
\* of these posts.  Of p1: one that scores 12, and one whose counts are all
\* unknown; of p2: one that scores 5, and one whose author has 500
\* followers; of p3: one that scores 9, and one that is 25 hours old; of p4:
\* one that scores 9, and one that is exactly 24 hours old; of p5: one with
\* 500 views.
MaxBatch == 3

FilterPosts ==
    {[Tweet("p1", 12000) EXCEPT !.author_verified = TRUE, !.likes = 51],
     Tweet("p1", 0),
     [Tweet("p2", 2000) EXCEPT !.priority_boost = 3],
     [Tweet("p2", 12000) EXCEPT !.author_followers = 500],
     [Tweet("p3", 12000) EXCEPT !.priority_boost = 1],
     [Tweet("p3", 12000) EXCEPT !.created_at = <<1500>>],
     [Tweet("p4", 12000) EXCEPT !.priority_boost = 1],
     [Tweet("p4", 12000) EXCEPT !.created_at = <<1440>>],
     Tweet("p5", 500)}

FilterBatches == UNION {[1..n -> FilterPosts] : n \in 0..MaxBatch}

\* The configs: the defaults, no score gate and a 48 hour max age as
\* on_demand sets them, and the default top_n_posts of 10.
FilterConfigs ==
    {[config EXCEPT !.min_score = s, !.max_post_age_hours = a, !.top_n_posts = n] :
       s \in {0, min_score}, a \in {max_post_age_hours, 48}, n \in {top_n_posts, 10}}

call_filter_and_rank_posts(posts_in, seen_db_ids, cfg) ==
    /\ probe = NoProbe
    /\ probe' = [f |-> "filter_and_rank_posts", posts |-> posts_in,
                 seen_db_ids |-> seen_db_ids, config |-> cfg,
                 top |-> filter_and_rank_posts(posts_in, seen_db_ids, cfg)]
    /\ UNCHANGED <<bot_vars, posters, gen>>

FilterNext ==
    \E posts_in \in (IF probe = NoProbe THEN FilterBatches ELSE {}) :
      \E seen_db_ids \in {{}, {"p3"}} : \E cfg \in FilterConfigs :
        call_filter_and_rank_posts(posts_in, seen_db_ids, cfg)

FilterSpec == Init /\ [][FilterNext]_vars

\* discover_posts_by_topic on its own: one call, with up to MaxKeywords
\* keywords.  A scrape returns posts, or raises: at once, or after
\* _scrape_url has parsed some cards, which are lost with it.
MaxKeywords == 3

RaisedAfter(ps) == [raised |-> TRUE, posts |-> ps]

TopicOutcomes ==
    {Raised, RaisedAfter(<<Tweet("p4", 12000)>>), Scrape(<<>>),
     Scrape(<<Tweet("p1", 12000)>>),
     Scrape(<<Tweet("p2", 11000), Tweet("p1", 12000)>>),
     Scrape(<<Tweet("p3", 12000)>>)}

TopicScrapes == UNION {[1..n -> TopicOutcomes] : n \in 1..MaxKeywords}

call_discover_posts_by_topic(scrapes, seen_ids) ==
    /\ probe = NoProbe
    /\ probe' = [f |-> "discover_posts_by_topic", scrapes |-> scrapes,
                 seen_ids |-> seen_ids,
                 all_posts |-> discover_posts_by_topic(scrapes, seen_ids)]
    /\ UNCHANGED <<bot_vars, posters, gen>>

TopicNext ==
    \E scrapes \in (IF probe = NoProbe THEN TopicScrapes ELSE {}) :
      \E seen_ids \in SUBSET PostIds :
        call_discover_posts_by_topic(scrapes, seen_ids)

TopicSpec == Init /\ [][TopicNext]_vars

\* Steps 2 and 3 of post_reply on their own, on the text the auto branch
\* read from the comments table: the textarea is found or the wait for it
\* times out ("return False", nothing typed); found, the old content is
\* cleared and textarea.send_keys(safe_comment) types the text.  typed
\* holds what send_keys was given.
CommentChars == {"a", "b"}

CommentLens == {0, 1} \cup (240 .. 290)

CommentTexts == {[i \in 1 .. n |-> c] : n \in CommentLens, c \in CommentChars}

post_reply_type(comment, found) ==
    /\ probe = NoProbe
    /\ probe' = [f |-> "post_reply", comment |-> comment,
                 typed |-> IF found THEN <<safe_comment(comment)>> ELSE <<>>]
    /\ UNCHANGED <<bot_vars, posters, gen>>

TypeNext ==
    \E comment \in (IF probe = NoProbe THEN CommentTexts ELSE {}),
       found \in BOOLEAN : post_reply_type(comment, found)

TypeSpec == Init /\ [][TypeNext]_vars

----------------------------------------------------------------------------
(* Approval state machine *)

Left(p) == p \in DOMAIN posts /\ posts[p].status \in {"approved", "skipped", "posted"}

HasTone(p, tone) ==
    \E c \in DOMAIN comments :
        comments[c].post_id = p /\ comments[c].comment_type = tone

\* C1: once a post's status has left pending, no step (token, custom text,
\* dispatcher write, on-demand search, repeated insert_post) sets it back to
\* pending.
C1_NeverBackToPending ==
    [][\A p \in PostIds :
         Left(p) => p \in DOMAIN posts' /\ posts'[p].status # "pending"]_vars

\* A post that left pending, was generated for by run_once and was also among
\* both posts an on-demand search inserted: insert_post ran twice for it.
C1_Witness ==
    \E p \in PostIds :
        /\ Left(p)
        /\ HasTone(p, "challenge")
        /\ \E i \in DOMAIN search_threads :
             /\ search_threads[i].pc = "done"
             /\ search_threads[i].i = 2

\* C2: a post's status history never contains both approved and skipped.
C2_ApprovedXorSkipped ==
    \A p \in PostIds : ~({"approved", "skipped"} \subseteq history[p])

\* C3: skipped is terminal: no step changes the status of a skipped post.
C3_SkippedTerminal ==
    [][\A p \in DOMAIN posts :
         posts[p].status = "skipped" => posts'[p].status = "skipped"]_vars

\* C4: a posted post has an Approval of an auto_<tone> option whose posted_at
\* is set.
C4_PostedHasAutoApproval ==
    \A p \in DOMAIN posts :
        posts[p].status = "posted" =>
            \E a \in DOMAIN approvals :
                /\ approvals[a].post_id = p
                /\ approvals[a].option_chosen[1] = "auto"
                /\ approvals[a].posted_at # 0

C4_Witness ==
    \E p \in DOMAIN posts :
        /\ posts[p].status = "posted"
        /\ \E a \in DOMAIN approvals :
             approvals[a].post_id = p /\ approvals[a].option_chosen[1] # "auto"

\* C5: a post whose status is approved or posted has at least one Approval row.
C5_ApprovedHasApproval ==
    \A p \in DOMAIN posts :
        posts[p].status \in {"approved", "posted"} =>
            \E a \in DOMAIN approvals : approvals[a].post_id = p

C5_Witness ==
    \E p \in DOMAIN posts :
        /\ posts[p].status = "approved"
        /\ \E a \in DOMAIN approvals :
             approvals[a].post_id = p /\ approvals[a].option_chosen = <<"custom">>
        /\ \E a \in DOMAIN approvals :
             approvals[a].post_id = p /\ approvals[a].option_chosen[1] = "manual"

\* C6: every Approval references a stored Comment of the Approval's own post.
C6_ApprovalCommentSamePost ==
    \A a \in DOMAIN approvals :
        /\ approvals[a].comment_id \in DOMAIN comments
        /\ comments[approvals[a].comment_id].post_id = approvals[a].post_id

\* An approval of a tone comment of one post while the other post has a later
\* comment of the same tone, and a custom approval.
C6_Witness ==
    /\ \E a \in DOMAIN approvals, c \in DOMAIN comments :
         /\ approvals[a].option_chosen[1] \in {"manual", "auto"}
         /\ c > approvals[a].comment_id
         /\ comments[c].comment_type = comments[approvals[a].comment_id].comment_type
         /\ comments[c].post_id # approvals[a].post_id
    /\ \E a \in DOMAIN approvals : approvals[a].option_chosen = <<"custom">>

\* A post token the store cannot serve: its post id is not stored, or it is
\* a manual/auto token whose tone has no stored Comment for the post.
Rejected(data) ==
    /\ Len(data) = 2
    /\ data[1][1] \in {"manual", "auto", "edit", "skip", "watch"}
    /\ \/ data[2] \notin DOMAIN posts
       \/ /\ data[1][1] \in {"manual", "auto"}
          /\ ~HasTone(data[2], data[1][2])

\* C7: handling a rejected token changes no table and no watchlist, does not
\* enter edit mode and starts no thread.  Every step either leaves all of
\* these alone, or handles no update at all, or is not the handling of any
\* rejected token.
C7_RejectedTokenMutatesNothing ==
    [][\/ UNCHANGED <<store, user_data, auto_threads, search_threads>>
       \/ update_id' = update_id
       \/ \A data \in {d \in Queries : Rejected(d)}, edited \in BOOLEAN :
              ~button_callback(data, edited)]_vars

\* A token for an id that is not stored was just answered "not found", with
\* another post stored: nothing is approved, edited, watched or dispatched.
C7_Witness ==
    /\ reply = "Post not found"
    /\ posts # <<>>
    /\ approvals = <<>>
    /\ user_data.editing_post_id = NULL
    /\ auto_threads = <<>>
    /\ accounts_json = <<>>

\* C8: an Approval's posted_at, once set, is never written again.
C8_PostedAtSetOnce ==
    [][\A a \in DOMAIN approvals :
         approvals[a].posted_at # 0 =>
             approvals'[a].posted_at = approvals[a].posted_at]_vars

\* Two auto approvals of one post, both dispatched with success.
C8_Witness ==
    \E a, b \in DOMAIN approvals :
        /\ a < b
        /\ approvals[a].post_id = approvals[b].post_id
        /\ approvals[a].posted_at # 0
        /\ approvals[b].posted_at # 0

\* C9: a dispatch thread appears only in the step of an update that appended
\* an auto_<tone> Approval for the thread's post and set that post approved.
C9_DispatchOnlyFromAuto ==
    [][DOMAIN auto_threads' # DOMAIN auto_threads =>
         \E a \in DOMAIN auto_threads' :
            /\ DOMAIN auto_threads' = DOMAIN auto_threads \cup {a}
            /\ update_id' = update_id + 1
            /\ approvals' = Append(approvals, approvals'[a])
            /\ a = Len(approvals')
            /\ approvals'[a].option_chosen[1] = "auto"
            /\ approvals'[a].post_id = auto_threads'[a].post_id
            /\ posts'[auto_threads'[a].post_id].status = "approved"]_vars

\* Manual and custom approvals, a skip and a watch all handled, and the only
\* threads are those of auto approvals.
C9_Witness ==
    /\ \E a \in DOMAIN approvals : approvals[a].option_chosen[1] = "manual"
    /\ \E a \in DOMAIN approvals : approvals[a].option_chosen[1] = "auto"
    /\ Cardinality(DOMAIN auto_threads) = 1
    /\ reply \in {"Skipped", "added to watchlist", "Custom comment saved"}

\* C10: when the handler of an auto token is done, the Approval and the
\* status approved are committed and the dispatch has not yet run: its thread
\* is at its first step and nothing of its outcome is written.
C10_ApprovalDoesNotWait ==
    [][\A a \in DOMAIN auto_threads' \ DOMAIN auto_threads :
         /\ auto_threads'[a].pc = "auto_post_reply"
         /\ auto_threads'[a].msg = NoMsg
         /\ a \in DOMAIN approvals'
         /\ approvals'[a].posted_at = 0
         /\ posts'[auto_threads'[a].post_id].status = "approved"]_vars

\* A later update was handled (a skip, after the auto approval) while the
\* dispatch was still in its reply attempt.
C10_Witness ==
    \E a \in DOMAIN auto_threads :
        /\ auto_threads[a].pc = "auto_post_reply"
        /\ reply = "Skipped"
        /\ posts[auto_threads[a].post_id].status = "skipped"

----------------------------------------------------------------------------
(* Dispatch outcomes *)

\* A step of dispatch a on its failure path: the reply attempt returning
\* false, or the notification of a failed dispatch.
FailureStep(a) ==
    /\ a \in DOMAIN auto_threads
    /\ \/ /\ auto_threads[a].pc = "auto_post_reply"
          /\ auto_threads'[a].pc = "notify"
       \/ /\ auto_threads[a].pc = "notify"
          /\ auto_threads[a].msg.kind = "failed"
          /\ auto_threads'[a].pc = "done"

\* C11: a failed dispatch writes nothing to the store (the post's status
\* stays as it was, not rolled back to pending), its Approval's posted_at
\* stays null, and the notification it sends is the manual fallback carrying
\* the comment text and the url.
C11_FailedDispatchWritesNothing ==
    [][\A a \in DOMAIN auto_threads :
         /\ FailureStep(a) => UNCHANGED store
         /\ auto_threads'[a].msg.kind = "failed" =>
              /\ approvals'[a].posted_at = 0
              /\ posts'[auto_threads'[a].post_id].status # "pending"
              /\ auto_threads'[a].msg.comment = comments'[approvals'[a].comment_id].text
              /\ auto_threads'[a].msg.tweet_url = posts'[approvals'[a].post_id].url]_vars

\* A failed dispatch has sent its notification; its post is still approved.
C11_Witness ==
    \E a \in DOMAIN auto_threads :
        /\ auto_threads[a].pc = "done"
        /\ auto_threads[a].msg.kind = "failed"
        /\ auto_threads[a].msg.comment = "txt-question"
        /\ posts[auto_threads[a].post_id].status = "approved"
        /\ approvals[a].posted_at = 0

\* C12: the success notification of a dispatch exists only once its
\* Approval's posted_at is set and its post has been set to posted.
C12_WritesBeforeSuccessNotification ==
    \A a \in DOMAIN auto_threads :
        auto_threads[a].msg.kind = "posted" =>
            /\ approvals[a].posted_at # 0
            /\ "posted" \in history[auto_threads[a].post_id]
            /\ auto_threads[a].msg.tone = approvals[a].option_chosen[2]
            /\ auto_threads[a].msg.tweet_url = posts[approvals[a].post_id].url

\* A success notification was sent, and the post has since been skipped.
C12_Witness ==
    \E a \in DOMAIN auto_threads :
        /\ auto_threads[a].pc = "done"
        /\ auto_threads[a].msg.kind = "posted"
        /\ posts[auto_threads[a].post_id].status = "skipped"

\* C13: every Approval of an auto_<tone> option has a dispatch, which is
\* what sends its outcome notification; no other step starts one later.
C13_EveryAutoApprovalDispatched ==
    \A a \in DOMAIN approvals :
        approvals[a].option_chosen[1] = "auto" => a \in DOMAIN auto_threads

----------------------------------------------------------------------------
(* Browser sessions *)

\* C14: when post_reply has returned, whatever it returned and however it
\* got there, its AutoPoster holds no driver and the session it built, if
\* any, has been quit; an AutoPoster never holds a session another one built.
C14_SessionTornDown ==
    \A i \in DOMAIN posters :
        /\ posters[i].driver \in {0, i}
        /\ posters[i].pc = "returned" =>
             /\ posters[i].driver = 0
             /\ posters[i].session # "open"
             /\ posters[i].result \in {"True", "False"}

\* Two calls have returned, one with True and one after an exception with
\* the browser open, and the sessions of both are gone.
C14_Witness ==
    \E i, j \in DOMAIN posters :
        /\ posters[i].pc = "returned" /\ posters[i].result = "True"
        /\ posters[j].pc = "returned" /\ posters[j].result = "False"
        /\ posters[j].session = "quit raised"

----------------------------------------------------------------------------
(* Discovery and dedup *)

\* C15: insert_post for an id that is already stored changes nothing in
\* posts; no step changes the score, url or author of a stored row, removes
\* a row or adds more than one.
C15_InsertPostIgnoresDuplicate ==
    [][/\ \A p \in DOMAIN posts :
            /\ p \in DOMAIN posts'
            /\ posts'[p].score = posts[p].score
            /\ posts'[p].url = posts[p].url
            /\ posts'[p].author_handle = posts[p].author_handle
       /\ Cardinality(DOMAIN posts') <= Cardinality(DOMAIN posts) + 1
       /\ (/\ run.pc = "generate"
           /\ run' # run
           /\ Head(run.ranked).id \in DOMAIN posts) => posts' = posts
       /\ \A i \in DOMAIN search_threads :
            (/\ search_threads[i].pc = "send"
             /\ search_threads'[i] # search_threads[i]
             /\ search_threads[i].top_posts[search_threads[i].i + 1] \in DOMAIN posts)
            => posts' = posts]_vars

\* A post an on-demand search stored first (score 0) for which the run then
\* generated comments: the run's insert_post, with its score, was ignored.
C15_Witness ==
    \E p \in DOMAIN posts :
        /\ posts[p].score = 0
        /\ HasTone(p, "challenge")

\* What a run over the searches and polls of the current run would rank,
\* against the store as it is.
RankedAgain(tbl, checks) ==
    LET seen_ids == get_already_seen_ids(tbl)
    IN filter_and_rank_posts(
           discover_posts_by_topic(run.scrapes, seen_ids)
           \o check_monitored_accounts(
                  SelectSeq(accounts_json, LAMBDA h : h \in DOMAIN run.polls),
                  run.polls, checks, seen_ids),
           seen_ids, config)

\* C16: when a run ends, a second run over the same searches and polls
\* would find nothing to insert.
C16_SecondRunInsertsNothing ==
    [][(run.pc = "generate" /\ run'.pc \in {"idle", "send"}) =>
          RankedAgain(posts', account_checks') = <<>>]_vars

\* C17: the batch STEP 1 hands on holds no id that was stored when the run
\* read seen_ids, and no id twice.
C17_BatchNewAndDistinct ==
    [][(run.pc = "idle" /\ run'.pc = "filter") =>
          /\ \A k \in DOMAIN run'.all_posts : run'.all_posts[k].id \notin DOMAIN posts
          /\ \A j, k \in DOMAIN run'.all_posts :
               j # k => run'.all_posts[j].id # run'.all_posts[k].id]_vars

\* C18: what filter_and_rank_posts returns holds no id twice and no stored
\* id, and each post in it is the first of its id in the batch.
C18_FilterDedup ==
    [][(run.pc = "filter" /\ run'.pc = "generate") =>
          \A k \in DOMAIN run'.ranked :
             LET id == run'.ranked[k].id
                 first == CHOOSE i \in DOMAIN run.all_posts :
                            /\ run.all_posts[i].id = id
                            /\ \A j \in 1..(i - 1) : run.all_posts[j].id # id
             IN /\ id \notin DOMAIN posts
                /\ \A j \in DOMAIN run'.ranked : j # k => run'.ranked[j].id # id
                /\ \E i \in DOMAIN run.all_posts : run.all_posts[i].id = id
                /\ run'.ranked[k].views = run.all_posts[first].views
                /\ run'.ranked[k].priority_boost = run.all_posts[first].priority_boost]_vars

\* The batch held an id twice, first below min_views and then well above
\* it, and the filter, with room left, kept neither.
C18_Witness ==
    /\ run.pc = "generate"
    /\ Len(run.ranked) < top_n_posts
    /\ \E i, j \in DOMAIN run.all_posts :
         /\ i < j
         /\ run.all_posts[i].id = run.all_posts[j].id
         /\ run.all_posts[i].views < min_views
         /\ run.all_posts[j].views > 10000
         /\ \A k \in DOMAIN run.ranked : run.ranked[k].id # run.all_posts[j].id

----------------------------------------------------------------------------
(* Generator *)

\* The calls made for a tone by a provider, as indexes of gen.calls.
Calls(tone, provider) ==
    {k \in DOMAIN gen.calls :
        gen.calls[k].tone = tone /\ gen.calls[k].provider = provider}

\* C19: per tone, each provider is called at most once; the secondary
\* provider is called exactly when the primary's call raised, right after
\* it; and when the primary raised for every tone, every result is the
\* secondary's text for that tone (or empty, where the secondary raised too).
C19_FallbackOnceOnFailure ==
    LET primary == gen.provider
        secondary == fallback(gen.provider)
    IN gen.pc # "idle" =>
       /\ \A tone \in ToneSet :
            /\ Cardinality(Calls(tone, primary)) <= 1
            /\ Cardinality(Calls(tone, secondary)) <= 1
       /\ \A k \in DOMAIN gen.calls :
            /\ gen.calls[k].provider \in {primary, secondary}
            /\ gen.calls[k].provider = secondary =>
                 /\ k > 1
                 /\ gen.calls[k - 1] = [tone |-> gen.calls[k].tone,
                                        provider |-> primary, outcome |-> "raise"]
            /\ (gen.calls[k].provider = primary /\ gen.calls[k].outcome = "raise") =>
                 IF k = Len(gen.calls) THEN gen.pc = "except"
                 ELSE /\ gen.calls[k + 1].provider = secondary
                      /\ gen.calls[k + 1].tone = gen.calls[k].tone
            /\ (gen.calls[k].provider = primary /\ gen.calls[k].outcome # "raise") =>
                 Calls(gen.calls[k].tone, secondary) = {}
       /\ (/\ gen.pc = "returned"
           /\ \A k \in DOMAIN gen.calls :
                gen.calls[k].provider = primary => gen.calls[k].outcome = "raise") =>
            \A tone \in ToneSet :
                \E k \in Calls(tone, secondary) :
                    gen.results[tone].text =
                        IF gen.calls[k].outcome = "raise" THEN ""
                        ELSE LLMText(secondary, tone, gen.calls[k].outcome)

\* The primary provider raised for all four tones, and all four texts are
\* the secondary's.
C19_Witness ==
    /\ gen.pc = "returned"
    /\ gen.provider = "gemini"
    /\ Len(gen.calls) = 8
    /\ \A tone \in ToneSet : gen.results[tone].text = LLMText("groq", tone, "long")

\* C20: generate_comments returns a result for each of the four tones; a
\* tone for which both providers raised has the empty text and the
\* generation-failed issue, and every other tone has what the provider call
\* that answered for it returned, with that text's validation issues.
C20_FourResultsIndependent ==
    gen.pc = "returned" =>
       /\ DOMAIN gen.results = ToneSet
       /\ \A tone \in ToneSet :
            LET last == CHOOSE k \in DOMAIN gen.calls :
                          /\ gen.calls[k].tone = tone
                          /\ \A j \in DOMAIN gen.calls :
                               gen.calls[j].tone = tone => j <= k
            IN /\ \E k \in DOMAIN gen.calls : gen.calls[k].tone = tone
               /\ gen.results[tone] =
                    IF gen.calls[last].outcome = "raise"
                    THEN [text |-> "", issues |-> <<"Generation failed">>]
                    ELSE LET text == LLMText(gen.calls[last].provider, tone,
                                             gen.calls[last].outcome)
                         IN [text |-> text, issues |-> validate_comment(text)]

\* Both providers raised for the first tone only; the other three have
\* their texts, one of them from the secondary provider.
C20_Witness ==
    /\ gen.pc = "returned"
    /\ gen.results["challenge"] = [text |-> "", issues |-> <<"Generation failed">>]
    /\ \A tone \in ToneSet \ {"challenge"} : gen.results[tone].text # ""
    /\ Len(gen.calls) = 6

----------------------------------------------------------------------------
(* Comments and cards *)

\* The rows of a post's tone comments as a card would list them.
Listed(p) ==
    LET rows == SelectSeq(get_comments_for_post(comments, p),
                          LAMBDA r : r.comment_type \in ToneSet)
    IN [k \in DOMAIN rows |-> [tone |-> rows[k].comment_type, text |-> rows[k].text]]

\* C21: validation issues never block a comment.  A turn of STEP 4 whose
\* generate_comments returned stores every non-empty text as a Comment of its
\* tone with the issues validate_comment gave it; a card put in the chat
\* lists exactly the stored tone comments of its post, those with issues
\* too; and a manual or auto token for a stored comment records an Approval
\* of that comment and approves the post, whatever its issues.
C21_IssuesNeverBlock ==
    [][/\ (run.pc = "generate"
           /\ Len(run'.posts_with_comments) > Len(run.posts_with_comments)) =>
             LET item == run'.posts_with_comments[Len(run'.posts_with_comments)]
             IN \A tone \in ToneSet :
                  item.comments[tone].text # "" =>
                    \E c \in (Len(comments) + 1)..Len(comments') :
                       /\ comments'[c].post_id = item.post.id
                       /\ comments'[c].comment_type = tone
                       /\ comments'[c].text = item.comments[tone].text
                       /\ comments'[c].issues = item.comments[tone].issues
       /\ \A p \in DOMAIN cards' : cards'[p] = Listed(p)'
       /\ \A data \in CardQueries, edited \in BOOLEAN :
             LET row == comment_map_get(get_comments_for_post(comments, data[2]),
                                        data[1][2])
             IN (/\ button_callback(data, edited)
                 /\ data[2] \in DOMAIN posts
                 /\ row.id # 0) =>
                   /\ Len(approvals') = Len(approvals) + 1
                   /\ approvals'[Len(approvals')].comment_id = row.id
                   /\ approvals'[Len(approvals')].option_chosen = data[1]
                   /\ posts'[data[2]].status = "approved"]_vars

\* A text with issues is stored with them, is on the card of its post and
\* has been approved.
C21_Witness ==
    \E c \in DOMAIN comments, a \in DOMAIN approvals :
       /\ comments[c].issues # <<>>
       /\ comments[c].text # ""
       /\ comments[c].post_id \in DOMAIN cards
       /\ \E k \in DOMAIN cards[comments[c].post_id] :
             cards[comments[c].post_id][k].text = comments[c].text
       /\ approvals[a].comment_id = c
       /\ approvals[a].option_chosen[1] = "auto"

\* C22: a post has at most one stored Comment per tone, over any number of
\* runs: no two rows of comments have the same post_id and the same tone.
C22_OneCommentPerTone ==
    \A c1, c2 \in DOMAIN comments :
       (/\ comments[c1].post_id = comments[c2].post_id
        /\ comments[c1].comment_type = comments[c2].comment_type
        /\ comments[c1].comment_type \in ToneSet) => c1 = c2

\* A later run whose search returned a post that has its four comments is
\* generating for another post.
C22_Witness ==
    /\ run.pc = "generate"
    /\ \E p \in DOMAIN posts :
         /\ \A tone \in ToneSet :
               \E c \in DOMAIN comments :
                  comments[c].post_id = p /\ comments[c].comment_type = tone
         /\ \E k \in DOMAIN run.scrapes :
               \E j \in DOMAIN run.scrapes[k].posts :
                  run.scrapes[k].posts[j].id = p
         /\ \A k \in DOMAIN run.all_posts : run.all_posts[k].id # p

----------------------------------------------------------------------------
(* Account watch scheduler *)

\* The posts of all_posts that the poll of account h added.
FromAccount(all_posts, h) ==
    SelectSeq(all_posts, LAMBDA q : q.source = "account_monitor"
                                    /\ q.author_handle = h)

\* What the poll of account h returned that was not in seen_ids.
NewOf(poll, seen_ids) ==
    SelectSeq(poll.posts, LAMBDA q : q.id \notin seen_ids)

\* Account h has a last check and it is less than check_every_hours old.
NotDue(h, poll) ==
    get_last_check_time(account_checks, h) # 0 /\ poll.elapsed < check_every_hours

RECURSIVE Collected(_, _, _)
Collected(hs, polls, seen_ids) ==
    IF hs = <<>> THEN <<>>
    ELSE LET h == Head(hs)
             new == NewOf(polls[h], seen_ids)
         IN (IF ~NotDue(h, polls[h]) /\ ~polls[h].raised
             THEN [k \in DOMAIN new |-> new[k].id] ELSE <<>>)
            \o Collected(Tail(hs), polls, seen_ids)

\* C24: one account's failure never aborts the batch.  In a run in which
\* the poll of a watched account fails, the batch still holds the new posts
\* of every account that was due and whose poll succeeded, those before the
\* failing account in the list and those after it, in the order of the list,
\* after the posts of the topic searches; and each of these accounts has its
\* last_checked set.
C24_AccountFailureIsolated ==
    [][\A scrapes \in PollScrapes, polls \in PollPolls :
         (/\ run_discover(scrapes, polls)
          /\ \E k \in DOMAIN accounts_json :
                /\ polls[accounts_json[k]].raised
                /\ ~NotDue(accounts_json[k], polls[accounts_json[k]])) =>
           LET topic == discover_posts_by_topic(scrapes, DOMAIN posts)
               mine == SelectSeq(run'.all_posts,
                                 LAMBDA q : q.source = "account_monitor")
           IN /\ SubSeq(run'.all_posts, 1, Len(topic)) = topic
              /\ Len(run'.all_posts) = Len(topic) + Len(mine)
              /\ [k \in DOMAIN mine |-> mine[k].id]
                   = Collected(accounts_json, polls, DOMAIN posts)
              /\ \A k \in DOMAIN accounts_json :
                    LET h == accounts_json[k]
                    IN (~NotDue(h, polls[h]) /\ ~polls[h].raised) =>
                          account_checks'[h] = now]_vars

\* The poll of the first account of the list failed, and the new post of
\* the second is in the batch.
C24_Witness ==
    /\ run.pc = "filter"
    /\ Len(accounts_json) = 2
    /\ accounts_json[1] \in DOMAIN run.polls
    /\ accounts_json[2] \in DOMAIN run.polls
    /\ run.polls[accounts_json[1]].raised
    /\ \/ run.last_check[accounts_json[1]] = 0
       \/ run.polls[accounts_json[1]].elapsed >= check_every_hours
    /\ ~run.polls[accounts_json[2]].raised
    /\ FromAccount(run.all_posts, accounts_json[2]) # <<>>
    /\ account_checks[accounts_json[1]] = run.last_check[accounts_json[1]]
    /\ account_checks[accounts_json[2]] = now - 1

----------------------------------------------------------------------------
(* Scoring *)

\* The bonus of the highest tier that x is strictly above, 0 for none.
Tier(x, tiers) ==
    LET above == {t \in tiers : x > t[1]}
    IN IF above = {} THEN 0
       ELSE (CHOOSE t \in above : \A u \in above : u[1] <= t[1])[2]

\* The weighted sum as the specification gives it.
Formula(post) ==
    LET known == post.created_at # <<>>
        m == post.created_at[1]
    IN Tier(post.author_followers, {<<50000, 5>>, <<10000, 3>>, <<1000, 1>>})
       + Tier(post.views, {<<10000, 5>>, <<5000, 3>>, <<1000, 2>>})
       + (IF known /\ m > 0
          THEN Tier(post.views * 60, {<<1000 * m, 4>>, <<500 * m, 2>>}) ELSE 0)
       + (IF post.author_verified THEN 2 ELSE 0)
       + (IF post.likes > 50 THEN 2 ELSE 0)
       + (IF post.replies > 10 THEN 2 ELSE 0)
       + (IF known THEN (IF m < 180 THEN 3 ELSE IF m < 720 THEN 1 ELSE 0) ELSE 0)
       + post.priority_boost
       + (IF post.views > 5000 /\ post.replies < 20 THEN 3 ELSE 0)
       + (IF \E s \in debatable : s \in substrings(text_lower(post.text))
          THEN 2 ELSE 0)
       + (IF \E s \in comparison : s \in substrings(text_lower(post.text))
          THEN 1 ELSE 0)

\* C25: score_post is the additive formula: every tiered term gives the
\* bonus of its highest tier only, a value equal to a threshold is in the
\* lower tier (50,000 followers add 3, and so do 10,000 views without the
\* first-mover and velocity terms), a lexical signal adds its bonus once and
\* in any case of the letters, the boost is added as it is, and a post with
\* 12000 views, 60000 followers, verified and 1 hour old scores at least 15,
\* which is at least min_score.
C25_ScoreIsTheFormula ==
    probe.f = "score_post" =>
       LET post == probe.post
           without(field, v) == score_post([post EXCEPT ![field] = v])
       IN /\ probe.score = Formula(post)
          /\ post.author_followers = 50000 =>
                probe.score = without("author_followers", 0) + 3
          /\ (post.views = 10000 /\ post.replies = 20 /\ post.created_at = <<>>) =>
                probe.score = without("views", 0) + 3
          /\ probe.score = without("priority_boost", 0) + post.priority_boost
          /\ post.text = "hot take: rlhf is dead" =>
                probe.score = without("text", "llm evals") + 2
          /\ post.text = "Hot Take: RLHF is DEAD" =>
                probe.score = without("text", "hot take: rlhf is dead")
          /\ (/\ post.views = 12000
              /\ post.author_followers = 60000
              /\ post.author_verified
              /\ post.created_at = <<60>>) =>
                probe.score >= 15 /\ probe.score >= min_score

\* score_post was called on a post at two thresholds, with two phrases of
\* one list in its text.
C25_Witness ==
    /\ probe.f = "score_post"
    /\ probe.post.author_followers = 50000
    /\ probe.post.views = 10000
    /\ probe.post.replies = 20
    /\ probe.post.created_at = <<>>
    /\ probe.post.priority_boost = 3
    /\ probe.post.text = "Hot Take: RLHF is DEAD"
    /\ probe.score = 3 + 3 + 3 + 2 + 2

\* C26: scoring is monotone.  With every other field and the time of the
\* call fixed, a post with more views scores no less, and neither does a
\* post whose author has more followers.
C26_ScoreMonotone ==
    probe.f = "score_post" =>
       /\ \A views \in ViewCounts :
             views >= probe.post.views =>
                score_post([probe.post EXCEPT !.views = views]) >= probe.score
       /\ \A followers \in FollowerCounts :
             followers >= probe.post.author_followers =>
                score_post([probe.post EXCEPT !.author_followers = followers])
                   >= probe.score

\* score_post was called on a post that more views move to a higher tier,
\* a higher velocity and the first-mover bonus.
C26_Witness ==
    /\ probe.f = "score_post"
    /\ probe.post.views = 5000
    /\ probe.post.created_at = <<720>>
    /\ probe.post.replies = 10
    /\ score_post([probe.post EXCEPT !.views = 12000]) = probe.score + 3 + 2 + 3

----------------------------------------------------------------------------
(* The filter *)

\* The first occurrence of each id in a batch.
FirstOf(ps, i) == \A j \in 1..(i - 1) : ps[j].id # ps[i].id

\* What the thresholds are said to exclude: a view count that is known (not
\* 0) and below min_views, a follower count that is known and below the
\* minimum, a creation time that is known and older than the max age.
Excluded(q, cfg) ==
    \/ q.views # 0 /\ q.views < cfg.min_views
    \/ q.author_followers # 0 /\ q.author_followers < cfg.min_author_followers
    \/ q.created_at # <<>> /\ q.created_at[1] > cfg.max_post_age_hours * 60

Passing(ps, seen, cfg) ==
    {i \in DOMAIN ps : /\ FirstOf(ps, i)
                       /\ ps[i].id \notin seen
                       /\ ~Excluded(ps[i], cfg)
                       /\ score_post(ps[i]) >= cfg.min_score}

\* C27: filter_and_rank_posts excludes a post whose view count or follower
\* count is known and below its minimum, and a post whose creation time is
\* known and older than the max age; a count of 0 and an unknown creation
\* time exclude nothing: the posts returned are among the first
\* occurrences that are not stored, are not excluded in this sense and score
\* at least min_score, and they are all of these when there are no more
\* than top_n_posts of them.
C27_ThresholdsOnlyOnKnownCounts ==
    probe.f = "filter_and_rank_posts" =>
      LET ps == probe.posts
          pass == Passing(ps, probe.seen_db_ids, probe.config)
          out == {probe.top[k].id : k \in DOMAIN probe.top}
      IN /\ out \subseteq {ps[i].id : i \in pass}
         /\ \A i \in DOMAIN ps :
              FirstOf(ps, i) /\ Excluded(ps[i], probe.config) => ps[i].id \notin out
         /\ Cardinality(pass) <= probe.config.top_n_posts
              => out = {ps[i].id : i \in pass}

\* A batch with a post of 500 views, one of unknown counts and one that is
\* 25 hours old, with no score gate and a max age of 24 hours: only the one
\* of unknown counts is returned.
C27_Witness ==
    /\ probe.f = "filter_and_rank_posts"
    /\ probe.config.min_views = 1000 /\ probe.config.max_post_age_hours = 24
    /\ Len(probe.posts) = 3
    /\ probe.posts[1].views = 500
    /\ probe.posts[2].views = 0 /\ probe.posts[2].author_followers = 0
    /\ probe.posts[2].created_at = <<>>
    /\ probe.posts[3].created_at = <<1500>>
    /\ probe.posts[3].id \notin probe.seen_db_ids
    /\ Len(probe.top) = 1 /\ probe.top[1].id = probe.posts[2].id

\* Where an id first stands in a batch, and the scores of a list of posts.
Pos(ps, id) == CHOOSE i \in DOMAIN ps : ps[i].id = id /\ FirstOf(ps, i)

Scores(ps) == [k \in DOMAIN ps |-> score_post(ps[k])]

\* C28: what filter_and_rank_posts returns is sorted by score, highest first,
\* posts of equal score in the order of the input; it has at most
\* top_n_posts posts, each scoring at least min_score; it is a prefix of the
\* ranking: it has top_n_posts posts or every candidate, and no candidate
\* left out scores higher than one returned; candidates scoring 12, 5 and
\* 9 are returned as 12, 9, 5, cut to top_n_posts.
C28_RankedPrefix ==
    probe.f = "filter_and_rank_posts" =>
      LET ps == probe.posts
          top == probe.top
          cfg == probe.config
          pass == Passing(ps, probe.seen_db_ids, cfg)
          out == {top[k].id : k \in DOMAIN top}
      IN /\ \A i, j \in DOMAIN top :
              i < j => \/ top[i].score > top[j].score
                       \/ /\ top[i].score = top[j].score
                          /\ Pos(ps, top[i].id) < Pos(ps, top[j].id)
         /\ Len(top) <= cfg.top_n_posts
         /\ \A k \in DOMAIN top :
              /\ top[k].score >= cfg.min_score
              /\ top[k].id \in {ps[i].id : i \in pass}
              /\ top[k].score = score_post(ps[Pos(ps, top[k].id)])
         /\ Len(top) = (IF Cardinality(pass) < cfg.top_n_posts
                        THEN Cardinality(pass) ELSE cfg.top_n_posts)
         /\ \A i \in pass : ps[i].id \notin out =>
              \A k \in DOMAIN top : score_post(ps[i]) <= top[k].score
         /\ Scores(ps) = <<12, 5, 9>> /\ pass = {1, 2, 3} =>
              [k \in DOMAIN top |-> top[k].score]
                = top_n(<<12, 9, 5>>, cfg.top_n_posts)

\* Posts scoring 12, 5 and 9, all candidates, with room for ten: they are
\* returned as 12, 9, 5.
C28_Witness ==
    /\ probe.f = "filter_and_rank_posts"
    /\ Scores(probe.posts) = <<12, 5, 9>>
    /\ probe.config.top_n_posts = 10
    /\ [k \in DOMAIN probe.top |-> probe.top[k].score] = <<12, 9, 5>>

----------------------------------------------------------------------------
(* Topic discovery *)

\* C30: a failed topic search is isolated: whatever searches raise,
\* discover_posts_by_topic returns the new posts of every search that did
\* not, those of the searches after a failed one included, each as often
\* as they found it, and nothing of a search that raised.
C30_FailedSearchIsolated ==
    probe.f = "discover_posts_by_topic" =>
      LET scrapes == probe.scrapes
          cards_of(k) == {<<k, j>> : j \in DOMAIN scrapes[k].posts}
          found == {kj \in UNION {cards_of(k) : k \in DOMAIN scrapes} :
                      /\ ~scrapes[kj[1]].raised
                      /\ scrapes[kj[1]].posts[kj[2]].id \notin probe.seen_ids}
      IN /\ Len(probe.all_posts) = Cardinality(found)
         /\ \A id \in {"p1", "p2", "p3", "p4", "p5"} :
              Cardinality({i \in DOMAIN probe.all_posts : probe.all_posts[i].id = id})
                = Cardinality({kj \in found : scrapes[kj[1]].posts[kj[2]].id = id})

\* The first search raises after it has parsed p4, a later one finds a new
\* post: that post is returned, p4 is not.
C30_Witness ==
    /\ probe.f = "discover_posts_by_topic"
    /\ probe.scrapes[1].raised /\ probe.scrapes[1].posts # <<>>
    /\ \E k \in DOMAIN probe.scrapes :
         /\ k > 1 /\ ~probe.scrapes[k].raised
         /\ \E j \in DOMAIN probe.scrapes[k].posts :
              /\ probe.scrapes[k].posts[j].id \notin probe.seen_ids
              /\ \E i \in DOMAIN probe.all_posts :
                   probe.all_posts[i] = probe.scrapes[k].posts[j]
    /\ \A i \in DOMAIN probe.all_posts : probe.all_posts[i].id # "p4"

----------------------------------------------------------------------------
(* Failures inside a run *)

\* C31: no per-item error aborts a run.  A turn of STEP 4 inserts its post
\* and, whether generate_comments raised or not, leaves the posts after it
\* to the next turns and keeps what the turns before it collected; after
\* the last turn STEP 5 starts if anything was collected.  STEP 5 puts the
\* card of every item whose send succeeds in the chat, whichever sends
\* before it failed.
C31_NoItemErrorAbortsRun ==
    [][/\ \A results \in GenOutcomes, raised \in BOOLEAN :
             run_generate(results, raised) =>
               LET post == Head(run.ranked)
                   rest == Tail(run.ranked)
                   kept == run.posts_with_comments
               IN /\ post.id \in DOMAIN posts'
                  /\ run'.posts_with_comments
                       = (IF raised THEN kept
                          ELSE Append(kept, [post |-> post, comments |-> results]))
                  /\ rest # <<>> => run'.pc = "generate" /\ run'.ranked = rest
                  /\ (rest = <<>> /\ (~raised \/ kept # <<>>)) => run'.pc = "send"
       /\ \A n \in 1..3 : \A oks \in [1..n -> BOOLEAN] :
             run_send(oks) =>
               \A k \in 1..n :
                  oks[k] =>
                    LET item == run.posts_with_comments[k]
                    IN /\ item.post.id \in DOMAIN cards'
                       /\ cards'[item.post.id]
                            = format_message(item.comments, TONES)]_vars

\* generate_comments raised for p3, the first post of the ranking: p3 is
\* stored without comments and has no card, and the card of p2, the post
\* after it, is in the chat.
C31_Witness ==
    /\ search_threads = <<>>
    /\ "p3" \in DOMAIN posts
    /\ get_comments_for_post(comments, "p3") = <<>>
    /\ "p3" \notin DOMAIN cards
    /\ "p2" \in DOMAIN cards
    /\ get_comments_for_post(comments, "p2") # <<>>

----------------------------------------------------------------------------
(* Referential integrity *)

\* C32: in every reachable state every Comment's post_id is the id of a row
\* of posts, and every Approval's post_id is the id of a row of posts and
\* its comment_id the id of a row of comments; so too for the comments that
\* a turn of STEP 4 stored after its insert_post was ignored.
C32_ReferentialIntegrity ==
    /\ \A c \in DOMAIN comments :
          /\ comments[c].id = c
          /\ comments[c].post_id \in DOMAIN posts
    /\ \A a \in DOMAIN approvals :
          /\ approvals[a].post_id \in DOMAIN posts
          /\ approvals[a].comment_id \in DOMAIN comments

\* A post that an on-demand search stored (its row has the score 0 of a raw
\* post) has tone comments, which a run stored after its own insert_post of
\* the post was ignored, and one of them has been approved.
C32_Witness ==
    \E c \in DOMAIN comments, a \in DOMAIN approvals :
       /\ comments[c].comment_type \in ToneSet
       /\ comments[c].post_id \in DOMAIN posts
       /\ posts[comments[c].post_id].score = 0
       /\ approvals[a].comment_id = c
       /\ approvals[a].post_id = comments[c].post_id

----------------------------------------------------------------------------
(* Dispatch and the control channel *)

\* C33: the status posted is entered only from approved: in every step that
\* changes a post's status to posted, the status before it is approved.
C33_PostedOnlyFromApproved ==
    [][\A p \in DOMAIN posts :
         (posts[p].status # "posted" /\ posts'[p].status = "posted")
           => posts[p].status = "approved"]_vars

\* C34: a post is auto-posted at most once: no two dispatches are ever
\* started for the same post, whatever tokens arrive.
C34_OneDispatchPerPost ==
    \A a, b \in DOMAIN auto_threads :
       auto_threads[a].post_id = auto_threads[b].post_id => a = b

----------------------------------------------------------------------------
(* Edit mode *)

\* C35: edit mode is a one-shot session.  An edit token for a stored post
\* changes no row and sets editing_post_id to the post.  A text message
\* handled while editing_post_id is set inserts one custom Comment for that
\* post with the text (as str.strip() leaves it), one Approval of that
\* comment with the option custom and the same text, sets the post to
\* approved, leaves every other post as it was and clears editing_post_id;
\* a text message handled while it is clear writes nothing to the store and
\* is kept as the pending search topic.  /cancel clears editing_post_id and
\* writes nothing to the store.
C35_EditModeOneShot ==
    [][/\ \A p \in PostIds, edited \in BOOLEAN :
             (button_callback(<<<<"edit">>, p>>, edited) /\ p \in DOMAIN posts) =>
               /\ UNCHANGED store
               /\ user_data'.editing_post_id = p
       /\ \A message_text \in MsgTexts :
             handle_custom_comment(message_text) =>
               LET p == user_data.editing_post_id
                   text == strip(message_text)
               IN IF p # NULL
                  THEN /\ Len(comments') = Len(comments) + 1
                       /\ SubSeq(comments', 1, Len(comments)) = comments
                       /\ comments'[Len(comments')].post_id = p
                       /\ comments'[Len(comments')].comment_type = "custom"
                       /\ comments'[Len(comments')].text = text
                       /\ Len(approvals') = Len(approvals) + 1
                       /\ SubSeq(approvals', 1, Len(approvals)) = approvals
                       /\ approvals'[Len(approvals')].post_id = p
                       /\ approvals'[Len(approvals')].comment_id = Len(comments')
                       /\ approvals'[Len(approvals')].option_chosen = <<"custom">>
                       /\ approvals'[Len(approvals')].custom_text = text
                       /\ posts'[p].status = "approved"
                       /\ \A q \in DOMAIN posts : q # p => posts'[q] = posts[q]
                       /\ user_data'.editing_post_id = NULL
                  ELSE /\ UNCHANGED store
                       /\ text # "" => user_data'.pending_search_topic = text
       /\ cmd_cancel => UNCHANGED store /\ user_data'.editing_post_id = NULL]_vars

\* After an edit token and two text messages: the post is approved with
\* one custom comment and one custom Approval, edit mode is over and the
\* second text is the pending search topic.
C35_Witness ==
    /\ update_id = 3
    /\ user_data.editing_post_id = NULL
    /\ user_data.pending_search_topic = "hi"
    /\ Len(approvals) = 1
    /\ approvals[1].option_chosen = <<"custom">>
    /\ approvals[1].custom_text = "hi"
    /\ posts[approvals[1].post_id].status = "approved"
    /\ Cardinality({c \in DOMAIN comments : comments[c].comment_type = "custom"}) = 1
    /\ comments[approvals[1].comment_id].text = "hi"

----------------------------------------------------------------------------
(* Failed polls *)

\* C36: in a run, the last_checked of a watched account whose poll fails
\* stays as it was, so the account is as due after the run as it was
\* before; a last_checked changes only for an account that was due and
\* whose poll succeeded.
C36_FailedPollKeepsLastChecked ==
    [][\A scrapes \in PollScrapes, polls \in PollPolls :
         run_discover(scrapes, polls) =>
           \A k \in DOMAIN accounts_json :
              LET h == accounts_json[k]
              IN /\ polls[h].raised =>
                      /\ account_checks'[h] = account_checks[h]
                      /\ ~NotDue(h, polls[h]) => ~NotDue(h, polls[h])'
                 /\ account_checks'[h] # account_checks[h] =>
                      ~polls[h].raised /\ ~NotDue(h, polls[h])]_vars

\* An account that was checked before and was due again, 7 hours later:
\* its poll failed in this run, and its last_checked is still the time of
\* the earlier check.
C36_Witness ==
    /\ run.pc = "filter"
    /\ \E h \in DOMAIN run.polls :
         /\ run.last_check[h] # 0
         /\ run.polls[h].elapsed = 7
         /\ run.polls[h].raised
         /\ account_checks[h] = run.last_check[h]
         /\ account_checks[h] < now - 1

----------------------------------------------------------------------------
(* Empty results *)

\* C37: a tone's text is empty only when both providers failed: in what
\* generate_comments returns, every tone with an empty text has the
\* generation-failed issue.
C37_EmptyOnlyWhenFailed ==
    gen.pc = "returned" =>
       \A tone \in ToneSet :
          gen.results[tone].text = "" =>
             \E k \in DOMAIN gen.results[tone].issues :
                gen.results[tone].issues[k] = "Generation failed"

----------------------------------------------------------------------------
(* The watch action *)

\* The watch tokens.
WatchQueries == {data \in PollQueries : data[1] = <<"watch">>}

\* C38: the watch action is idempotent and touches no post.  No handle is
\* twice on the accounts list; a watch token changes no row of posts,
\* comments or approvals; and a watch token for a post whose author is on
\* the list and in account_checks leaves both as they are, the account's
\* last_checked included.
C38_WatchIdempotent ==
    [][/\ \A i, j \in DOMAIN accounts_json :
             lower(accounts_json[i]) = lower(accounts_json[j]) => i = j
       /\ \A data \in WatchQueries, edited \in BOOLEAN :
             button_callback(data, edited) =>
               /\ UNCHANGED <<posts, comments, approvals>>
               /\ data[2] \in DOMAIN posts =>
                    LET handle == posts[data[2]].author_handle
                    IN (/\ \E i \in DOMAIN accounts_json : accounts_json[i] = handle
                        /\ handle \in DOMAIN account_checks) =>
                          UNCHANGED <<accounts_json, account_checks>>]_vars

\* A watch token for an author who is on the list and has been checked was
\* answered with "already on watchlist"; the author is once on the list,
\* the last_checked is still set, and the post approved before that is
\* still approved.
C38_Witness ==
    /\ reply = "already on watchlist"
    /\ Len(accounts_json) = 1
    /\ account_checks[accounts_json[1]] # 0
    /\ Len(approvals) = 1
    /\ posts[approvals[1].post_id].status = "approved"
    /\ posts[approvals[1].post_id].author_handle = accounts_json[1]

----------------------------------------------------------------------------
(* On-demand search *)

\* C39: a search thread is started only by an scount token with a numeric
\* count that finds a pending topic, one thread for that topic and count,
\* and the token takes the pending topic away; so there are never more
\* threads than pairs of updates handled.  An scount token changes no row
\* of the store; with a count that is not a number it changes nothing at
\* all, and with no pending topic it starts no thread.
C39_SearchConsumesTopic ==
    [][/\ 2 * Len(search_threads') <= update_id'
       /\ Len(search_threads') # Len(search_threads) =>
             \E c \in CountArgs :
                /\ button_callback(<<<<"scount">>, c>>, TRUE)
                /\ IsInt(c)
                /\ user_data.pending_search_topic # NULL
                /\ user_data'.pending_search_topic = NULL
                /\ Len(search_threads') = Len(search_threads) + 1
                /\ SubSeq(search_threads', 1, Len(search_threads)) = search_threads
                /\ search_threads'[Len(search_threads')].topic
                     = user_data.pending_search_topic
                /\ search_threads'[Len(search_threads')].count = int(c)
       /\ \A c \in CountArgs, edited \in BOOLEAN :
             button_callback(<<<<"scount">>, c>>, edited) =>
               /\ UNCHANGED <<store, comments, auto_threads>>
               /\ ~IsInt(c) => UNCHANGED <<user_data, search_threads>>
               /\ IsInt(c) => user_data'.pending_search_topic = NULL
               /\ user_data.pending_search_topic = NULL
                    => UNCHANGED search_threads]_vars

\* A topic was submitted and an scount token started its search; a second
\* scount token found no topic: it was answered "Search expired" and there
\* is still one search.
C39_Witness ==
    /\ update_id = 3
    /\ Len(search_threads) = 1
    /\ search_threads[1].topic = "hi"
    /\ search_threads[1].count = 2
    /\ reply = "Search expired"
    /\ user_data.pending_search_topic = NULL

----------------------------------------------------------------------------
(* Auto-post: the text typed *)

\* C40: whenever post_reply types a comment that validate_comment does not
\* find over the limit (at most 280 characters), the text given to the
\* textarea is the comment read from the store, character for character.
C40_TypedIsStoredText ==
    (/\ probe # NoProbe
     /\ probe.f = "post_reply"
     /\ probe.typed # <<>>
     /\ ~over_twitter_limit(probe.comment))
        => probe.typed = <<probe.comment>>
====
